---- MODULE Spec2Model ----
(***************************************************************************)
(* A model of the efikit boot-entry library (libefibootdev), its load      *)
(* option codec and the EFI variable back-ends it sits on.                 *)
(*                                                                         *)
(* Conventions.  A byte is a number in 0..255; a buffer, a device path and *)
(* a variable value are sequences of bytes.  Offsets into a buffer are     *)
(* 0-based as in the C code (Mem reads them).  An unsigned int is kept as  *)
(* its 32-bit two's-complement value, so EFIBOOT_INDEX_AUTO (-1U) is -1    *)
(* and an unsigned comparison is written with UGreater.  A C string is a   *)
(* TLA+ string; the empty string is a buffer whose first char is NUL and   *)
(* NULL is the null pointer.                                               *)
(***************************************************************************)
EXTENDS Integers, Sequences, FiniteSets, TLC

(***************************************************************************)
(* Program constants                                                       *)
(***************************************************************************)
EFIBOOT_TYPE_BOOT == 1
EFIBOOT_TYPE_DRIVER == 2
EFIBOOT_TYPE_SYSPREP == 3
EFIBOOT_TYPE_MAX == 3
EFIBOOT_INDEX_MAX == 65535
EFIBOOT_INDEX_AUTO == -1
EFIVARS_MAX_LEN == 4096
LOAD_OPTION_ACTIVE == 1
SIZEOF_EFI_LOAD_OPTION == 6
END_DEVICE_PATH_LENGTH == 4
END_DEVICE_PATH_TYPE == 127
END_ENTIRE_DEVICE_PATH_SUBTYPE == 255
MEDIA_DEVICE_PATH == 4
MEDIA_FILEPATH_DP == 4

\* the null pointer, as a string and as a buffer
NULL == "<NULL>"

NULLBUF == << -1 >>

(***************************************************************************)
(* Machine arithmetic                                                      *)
(***************************************************************************)
\* a > b for two unsigned ints held as 32-bit two's-complement values
UGreater(a, b) ==
    IF a < 0 THEN (b >= 0 \/ a > b) ELSE (b >= 0 /\ a > b)

\* conversion of an integer to uint16_t
ToUint16(x) == x % 65536

\* the two bytes of a uint16_t, little-endian
LE16(x) == << ToUint16(x) % 256, ToUint16(x) \div 256 >>

\* the four bytes of a uint32_t (0..2^31-1 here), little-endian
LE32(x) ==
    << x % 256, (x \div 256) % 256, (x \div 65536) % 256, (x \div 16777216) % 256 >>

(***************************************************************************)
(* Memory: a buffer followed by whatever lies behind it.  A read beyond    *)
(* the end of the buffer yields the byte junk, chosen by the environment.  *)
(***************************************************************************)
Mem(buf, junk, off) == IF off < Len(buf) THEN buf[off + 1] ELSE junk

Mem16(buf, junk, off) == Mem(buf, junk, off) + 256 * Mem(buf, junk, off + 1)

Mem32(buf, junk, off) == Mem16(buf, junk, off) + 65536 * Mem16(buf, junk, off + 2)

Bytes(buf, off, n) == SubSeq(buf, off + 1, off + n)

RECURSIVE SumSeq(_)
SumSeq(ns) == IF ns = << >> THEN 0 ELSE Head(ns) + SumSeq(Tail(ns))

RECURSIVE Flatten(_)
Flatten(ss) == IF ss = << >> THEN << >> ELSE Head(ss) \o Flatten(Tail(ss))

(***************************************************************************)
(* String conversion (strconvert.c): UTF-8 <-> UCS-2LE via iconv.  A UCS-2 *)
(* string is a sequence of 16-bit code units ending in a 0 unit.           *)
(***************************************************************************)
\* iconv UTF8 -> UCS-2LE of one character starting at s[1]: <<unit, bytes used>>,
\* or <<-1, 0>> for a sequence iconv rejects (EILSEQ / EINVAL)
Utf8Char(s) ==
    LET b == s[1]
        cont(i) == i <= Len(s) /\ s[i] >= 128 /\ s[i] < 192
    IN  IF b < 128 THEN << b, 1 >>
        ELSE IF b >= 194 /\ b < 224 /\ cont(2)
             THEN << (b - 192) * 64 + (s[2] - 128), 2 >>
        ELSE IF b >= 224 /\ b < 240 /\ cont(2) /\ cont(3)
                /\ (b - 224) * 4096 + (s[2] - 128) * 64 >= 2048
             THEN << (b - 224) * 4096 + (s[2] - 128) * 64 + (s[3] - 128), 3 >>
        ELSE << -1, 0 >>

RECURSIVE Utf8Units(_)
\* the code units of a UTF-8 byte string, or <<-1>> when the conversion fails
Utf8Units(s) ==
    IF s = << >> THEN << >>
    ELSE LET c == Utf8Char(s)
         IN  IF c[1] < 0 \/ (c[1] >= 55296 /\ c[1] < 57344) THEN << -1 >>
             ELSE LET rest == Utf8Units(SubSeq(s, c[2] + 1, Len(s)))
                  IN  IF rest # << >> /\ rest[1] < 0 THEN << -1 >>
                      ELSE << c[1] >> \o rest

\* utf8_to_efi: the UCS-2 string with its terminating NUL, or NULLBUF
utf8_to_efi(utf8) ==
    LET u == Utf8Units(utf8)
    IN  IF u # << >> /\ u[1] < 0 THEN NULLBUF ELSE u \o << 0 >>

\* iconv UCS-2LE -> UTF8 of one code unit
Utf8Of(u) ==
    IF u < 128 THEN << u >>
    ELSE IF u < 2048 THEN << 192 + (u \div 64), 128 + (u % 64) >>
    ELSE << 224 + (u \div 4096), 128 + ((u \div 64) % 64), 128 + (u % 64) >>

RECURSIVE UnitsUtf8(_)
UnitsUtf8(units) ==
    IF units = << >> THEN << >> ELSE Utf8Of(Head(units)) \o UnitsUtf8(Tail(units))

\* efi_to_utf8: the UTF-8 string (without its NUL) of the units before the
\* first NUL unit, or NULLBUF when iconv rejects a unit (a surrogate)
efi_to_utf8(units) ==
    IF \E i \in 1..Len(units) : units[i] >= 55296 /\ units[i] < 57344
    THEN NULLBUF
    ELSE UnitsUtf8(units)

RECURSIVE UnitBytes(_)
\* the in-memory bytes of a sequence of CHAR16 units
UnitBytes(units) ==
    IF units = << >> THEN << >>
    ELSE << Head(units) % 256, Head(units) \div 256 >> \o UnitBytes(Tail(units))

(***************************************************************************)
(* EDK2 BaseLib string sizes, as called by the library                     *)
(***************************************************************************)
RECURSIVE StrnLenS(_, _, _, _, _)
\* the number of CHAR16 units before the first NUL unit at or after unit k of
\* the string at offset off, looking at no more than MaxSize units in all
StrnLenS(buf, junk, off, MaxSize, k) ==
    IF k >= MaxSize THEN MaxSize
    ELSE IF Mem16(buf, junk, off + 2 * k) = 0 THEN k
    ELSE StrnLenS(buf, junk, off, MaxSize, k + 1)

\* StrnSizeS ( String, MaxSize ): bytes of the string with its NUL
StrnSizeS(buf, junk, off, MaxSize) == (StrnLenS(buf, junk, off, MaxSize, 0) + 1) * 2

\* StrSize of a UCS-2 string held as units with its NUL
StrSize(units) == 2 * Len(units)

(***************************************************************************)
(* Device paths (libefidevpath.c over EDK2 UefiDevicePathLib)              *)
(***************************************************************************)
DevicePathType(buf, junk, node) == Mem(buf, junk, node)

DevicePathSubType(buf, junk, node) == Mem(buf, junk, node + 1)

DevicePathNodeLength(buf, junk, node) == Mem16(buf, junk, node + 2)

IsDevicePathEnd(buf, junk, node) ==
    /\ DevicePathType(buf, junk, node) = END_DEVICE_PATH_TYPE
    /\ DevicePathSubType(buf, junk, node) = END_ENTIRE_DEVICE_PATH_SUBTYPE

RECURSIVE DevicePathWalk(_, _, _, _, _)
\* the loop of IsDevicePathValid from the node at offset node, Size bytes of
\* nodes already passed; MaxSize = 0 stands for the bound MAX_UINT32, which no
\* path of the model comes near
DevicePathWalk(buf, junk, node, Size, MaxSize) ==
    LET Node(NodeLength) ==
            /\ NodeLength >= 4
            /\ (MaxSize # 0 => Size + NodeLength <= MaxSize - END_DEVICE_PATH_LENGTH)
            /\ ~ ( /\ DevicePathType(buf, junk, node) = MEDIA_DEVICE_PATH
                   /\ DevicePathSubType(buf, junk, node) = MEDIA_FILEPATH_DP
                   /\ Mem16(buf, junk, node + NodeLength - 2) # 0 )
            /\ DevicePathWalk(buf, junk, node + NodeLength, Size + NodeLength, MaxSize)
    IN  IF IsDevicePathEnd(buf, junk, node)
        THEN DevicePathNodeLength(buf, junk, node) = END_DEVICE_PATH_LENGTH
        ELSE Node(DevicePathNodeLength(buf, junk, node))

IsDevicePathValid(buf, junk, path, MaxSize) ==
    /\ ~ (MaxSize > 0 /\ MaxSize < END_DEVICE_PATH_LENGTH)
    /\ DevicePathWalk(buf, junk, path, 0, MaxSize)

\* efidp_valid ( path, max_len )
efidp_valid(buf, junk, path, max_len) == IsDevicePathValid(buf, junk, path, max_len)

RECURSIVE DevicePathEndOffset(_, _, _)
DevicePathEndOffset(buf, junk, node) ==
    IF IsDevicePathEnd(buf, junk, node) THEN node
    ELSE DevicePathEndOffset(buf, junk, node + DevicePathNodeLength(buf, junk, node))

\* efidp_len ( path ): UefiDevicePathLibGetDevicePathSize
efidp_len(buf, junk, path) ==
    LET Size(end) == (end - path) + DevicePathNodeLength(buf, junk, end)
    IN  IF ~ IsDevicePathValid(buf, junk, path, 0) THEN 0
        ELSE Size(DevicePathEndOffset(buf, junk, path))

(***************************************************************************)
(* Device path text (libefidevpath.c over EDK2 UefiDevicePathLib).  A text *)
(* is a sequence of character codes; of the grammar the model has the file *)
(* path node, the Uri() node and the instance separator.                   *)
(***************************************************************************)
HARDWARE_DEVICE_PATH == 1
MESSAGING_DEVICE_PATH == 3
MSG_URI_DP == 24
END_INSTANCE_DEVICE_PATH_SUBTYPE == 1
SIZE_OF_FILEPATH_DEVICE_PATH == 4

\* the characters the grammar gives a meaning to
LeftParenth == 40
RightParenth == 41
Comma == 44
Slash == 47

\* isalnum in the C locale
isalnum(c) == c \in (48..57) \cup (65..90) \cup (97..122)

IsDevicePathEndType(buf, junk, node) ==
    DevicePathType(buf, junk, node) = END_DEVICE_PATH_TYPE

RECURSIVE TrimAlnum(_, _, _, _)
\* "Trim initial alphanumeric characters": << filename, remaining >>
TrimAlnum(buf, junk, filename, remaining) ==
    IF remaining > 0 /\ isalnum(Mem16(buf, junk, filename))
    THEN TrimAlnum(buf, junk, filename + 2, remaining - 1)
    ELSE << filename, remaining >>

\* the test made of one FILEPATH_DEVICE_PATH node: its name without a
\* trailing NUL and its initial alphanumeric characters matches "(...)"
LooksTyped(buf, junk, path) ==
    LET filename == path + SIZE_OF_FILEPATH_DEVICE_PATH
        units == (DevicePathNodeLength(buf, junk, path)
                  - SIZE_OF_FILEPATH_DEVICE_PATH) \div 2
        Match(t) ==
            /\ t[2] > 0
            /\ Mem16(buf, junk, t[1]) = LeftParenth
            /\ Mem16(buf, junk, t[1] + 2 * (t[2] - 1)) = RightParenth
        Trimmed(remaining) == Match(TrimAlnum(buf, junk, filename, remaining))
    IN  Trimmed(IF units > 0 /\ Mem16(buf, junk, filename + 2 * (units - 1)) = 0
                THEN units - 1 ELSE units)

RECURSIVE efidp_plausible(_, _, _)
\* efidp_plausible ( path ): the loop ends at the first node of the end type
efidp_plausible(buf, junk, path) ==
    IF IsDevicePathEndType(buf, junk, path) THEN TRUE
    ELSE IF /\ DevicePathType(buf, junk, path) = MEDIA_DEVICE_PATH
            /\ DevicePathSubType(buf, junk, path) = MEDIA_FILEPATH_DP
            /\ LooksTyped(buf, junk, path)
         THEN FALSE
         ELSE efidp_plausible(buf, junk,
                              path + DevicePathNodeLength(buf, junk, path))

\* a file path node of the given name (CHAR16 units, NUL added)
FilePathNode(name) ==
    << MEDIA_DEVICE_PATH, MEDIA_FILEPATH_DP >>
    \o LE16(SIZE_OF_FILEPATH_DEVICE_PATH + 2 * (Len(name) + 1))
    \o UnitBytes(name \o << 0 >>)

\* a URI node (CHAR8 characters, no NUL)
UriNode(uri) ==
    << MESSAGING_DEVICE_PATH, MSG_URI_DP >> \o LE16(4 + Len(uri)) \o uri

EFIDP_END == << END_DEVICE_PATH_TYPE, END_ENTIRE_DEVICE_PATH_SUBTYPE, 4, 0 >>

EFIDP_END_INSTANCE ==
    << END_DEVICE_PATH_TYPE, END_INSTANCE_DEVICE_PATH_SUBTYPE, 4, 0 >>

\* the text "Uri"
UriText == << 85, 114, 105 >>

RECURSIVE Until(_, _, _)
\* how many units of str from position i on precede the first of the stops
\* outside parentheses (depth counts them), or -1 when they do not balance
Until(str, i, depth) ==
    IF i > Len(str) \/ (depth = 0 /\ str[i] \in {Comma, Slash})
    THEN (IF depth = 0 THEN 0 ELSE -1)
    ELSE LET rest == Until(str, i + 1,
                           IF str[i] = LeftParenth THEN depth + 1
                           ELSE IF str[i] = RightParenth THEN depth - 1
                           ELSE depth)
         IN  IF rest < 0 THEN -1 ELSE rest + 1

RECURSIVE FirstOf(_, _, _)
\* position of the first unit c of str from i on, or 0
FirstOf(str, i, c) ==
    IF i > Len(str) THEN 0 ELSE IF str[i] = c THEN i ELSE FirstOf(str, i + 1, c)

\* UefiDevicePathLibConvertTextToDeviceNode: the node whose name is in the
\* table, and a file path node of the whole text for any other text
ConvertTextToDeviceNode(str) ==
    LET Param(close) ==
            IF close = 0 THEN FilePathNode(str)
            ELSE LET param == SubSeq(str, Len(UriText) + 2, close - 1)
                     comma == FirstOf(param, 1, Comma)
                 IN  UriNode(IF comma = 0 THEN param
                             ELSE SubSeq(param, 1, comma - 1))
    IN  IF /\ Len(str) > Len(UriText)
           /\ SubSeq(str, 1, Len(UriText)) = UriText
           /\ str[Len(UriText) + 1] = LeftParenth
        THEN Param(FirstOf(str, Len(UriText) + 2, RightParenth))
        ELSE FilePathNode(str)

RECURSIVE SkipLeading(_, _)
\* GetNextDeviceNodeStr skips leading '/', ',', '(' and ')'
SkipLeading(str, i) ==
    IF i <= Len(str) /\ str[i] \in {Slash, Comma, LeftParenth, RightParenth}
    THEN SkipLeading(str, i + 1) ELSE i

RECURSIVE ConvertNodes(_, _)
\* the loop of UefiDevicePathLibConvertTextToDevicePath from position i: the
\* nodes in order, an end-instance node after a node followed by ','; the
\* loop ends at the end of the text and at parentheses that do not balance
ConvertNodes(str, i) ==
    LET Node(start) ==
            LET Take(n) ==
                    IF start > Len(str) \/ n < 0 THEN << >>
                    ELSE ConvertTextToDeviceNode(SubSeq(str, start, start + n - 1))
                         \o (IF start + n <= Len(str) /\ str[start + n] = Comma
                             THEN EFIDP_END_INSTANCE ELSE << >>)
                         \o ConvertNodes(str, start + n + 1)
            IN  Take(Until(str, start, 0))
    IN  IF i > Len(str) THEN << >> ELSE Node(SkipLeading(str, i))

\* UefiDevicePathLibConvertTextToDevicePath ( efitext ): efitext is the
\* CHAR16 string with its NUL; NULLBUF for an empty text
ConvertTextToDevicePath(efitext) ==
    IF Len(efitext) <= 1 THEN NULLBUF
    ELSE ConvertNodes(SubSeq(efitext, 1, Len(efitext) - 1), 1) \o EFIDP_END

\* efidp_from_text ( text, allow_implausible )
efidp_from_text(text, allow_implausible) ==
    LET Checked(efidp) ==
            IF efidp = NULLBUF
            THEN [ok |-> FALSE, errno |-> "EINVAL", path |-> NULLBUF]
            ELSE IF ~ (allow_implausible \/ efidp_plausible(efidp, 0, 0))
            THEN [ok |-> FALSE, errno |-> "EINVAL", path |-> NULLBUF]
            ELSE [ok |-> TRUE, errno |-> "", path |-> efidp]
        Converted(efitext) ==
            IF efitext = NULLBUF
            THEN [ok |-> FALSE, errno |-> "EILSEQ", path |-> NULLBUF]
            ELSE Checked(ConvertTextToDevicePath(efitext))
    IN  Converted(utf8_to_efi(text))

RECURSIVE Units16(_, _, _)
\* the CHAR16 units of n bytes of buf at off
Units16(buf, off, n) ==
    IF n < 2 THEN << >>
    ELSE << Mem16(buf, 0, off) >> \o Units16(buf, off + 2, n - 2)

RECURSIVE BeforeNul(_)
BeforeNul(units) ==
    IF units = << >> \/ Head(units) = 0 THEN << >>
    ELSE << Head(units) >> \o BeforeNul(Tail(units))

\* the text "Pci"
PciText == << 80, 99, 105 >>

\* "0x%x" of a byte, in the capitals the library prints
HexText(n) ==
    LET Digit(d) == IF d < 10 THEN 48 + d ELSE 55 + d
    IN  << 48, 120 >> \o (IF n < 16 THEN << Digit(n) >>
                          ELSE << Digit(n \div 16), Digit(n % 16) >>)

RECURSIVE ConvertNodesToText(_, _, _)
\* the loop of UefiDevicePathLibConvertDevicePathToText: "%s" of the name of a
\* file path node, "Pci(0x%x,0x%x)" of the device and function of a PCI node,
\* "Uri(%a)" of a URI node, "," of an end-instance node, and a '/' before a
\* node that follows a node
ConvertNodesToText(buf, node, str) ==
    LET len == DevicePathNodeLength(buf, 0, node)
        Sep == IF str = << >> \/ str[Len(str)] = Comma THEN << >> ELSE << Slash >>
        Text ==
            IF IsDevicePathEndType(buf, 0, node) THEN << Comma >>
            ELSE IF DevicePathType(buf, 0, node) = MEDIA_DEVICE_PATH
            THEN Sep \o BeforeNul(Units16(buf, node + 4, len - 4))
            ELSE IF DevicePathType(buf, 0, node) = HARDWARE_DEVICE_PATH
            THEN Sep \o PciText \o << LeftParenth >>
                 \o HexText(Mem(buf, 0, node + 5)) \o << Comma >>
                 \o HexText(Mem(buf, 0, node + 4)) \o << RightParenth >>
            ELSE Sep \o UriText \o << LeftParenth >>
                 \o BeforeNul(Bytes(buf, node + 4, len - 4)) \o << RightParenth >>
    IN  IF IsDevicePathEnd(buf, 0, node) THEN str
        ELSE ConvertNodesToText(buf, node + len, str \o Text)

\* efidp_to_text ( path, display_only, allow_shortcuts ): neither flag
\* changes the text of the nodes the model has
efidp_to_text(path, display_only, allow_shortcuts) ==
    LET Converted(text) ==
            IF text = NULLBUF
            THEN [ok |-> FALSE, errno |-> "EILSEQ", text |-> NULLBUF]
            ELSE [ok |-> TRUE, errno |-> "", text |-> text]
    IN  Converted(efi_to_utf8(ConvertNodesToText(path, 0, << >>)))

(***************************************************************************)
(* Boot entries (libefibootdev.c).  An entry is the record                 *)
(*   modified, type, index, attributes, description (UTF-8 bytes),         *)
(*   paths (a sequence of [path, text]), data (len = Len(data)), name.     *)
(* A function that may fail returns a record with ok and errno.            *)
(***************************************************************************)
efiboot_prefix(type) ==
    CASE type = 0 -> NULL
      [] type = EFIBOOT_TYPE_BOOT -> "Boot"
      [] type = EFIBOOT_TYPE_DRIVER -> "Driver"
      [] type = EFIBOOT_TYPE_SYSPREP -> "SysPrep"

HexDigit(d) ==
    CASE d = 0 -> "0" [] d = 1 -> "1" [] d = 2 -> "2" [] d = 3 -> "3"
      [] d = 4 -> "4" [] d = 5 -> "5" [] d = 6 -> "6" [] d = 7 -> "7"
      [] d = 8 -> "8" [] d = 9 -> "9" [] d = 10 -> "A" [] d = 11 -> "B"
      [] d = 12 -> "C" [] d = 13 -> "D" [] d = 14 -> "E" [] d = 15 -> "F"

\* printf "%04X" of a value below 0x10000
Hex04X(index) ==
    HexDigit(index \div 4096) \o HexDigit((index \div 256) % 16)
        \o HexDigit((index \div 16) % 16) \o HexDigit(index % 16)

\* snprintf ( buf, EFIBOOT_NAME_LEN, "%s" suffix, prefix ).  A NULL string for
\* %s is undefined behaviour: ub is what the C library makes of it, a fault
\* of the process ("crash") or the text "(null)" ("nullname").
snprintf(prefix, suffix, ub) ==
    IF prefix = NULL /\ ub = "crash" THEN [ok |-> FALSE, crash |-> TRUE, name |-> ""]
    ELSE [ok |-> TRUE, crash |-> FALSE,
          name |-> (IF prefix = NULL THEN "(null)" ELSE prefix) \o suffix]

\* efiboot_index_name ( type, index, buf ): the name written to buf
efiboot_index_name(type, index, ub) ==
    IF type < 0 \/ type > EFIBOOT_TYPE_MAX
    THEN [ok |-> FALSE, crash |-> FALSE, name |-> ""]
    ELSE IF UGreater(index, EFIBOOT_INDEX_MAX)
    THEN [ok |-> FALSE, crash |-> FALSE, name |-> ""]
    ELSE snprintf(efiboot_prefix(type), Hex04X(index), ub)

\* efiboot_order_name ( type, buf )
efiboot_order_name(type, ub) ==
    IF type < 0 \/ type > EFIBOOT_TYPE_MAX
    THEN [ok |-> FALSE, crash |-> FALSE, name |-> ""]
    ELSE snprintf(efiboot_prefix(type), "Order", ub)

\* efiboot_name ( entry )
efiboot_name(entry) == IF entry.name = "" THEN NULL ELSE entry.name

RECURSIVE PathOffsetsSlack(_, _, _, _)
\* the validation loop, were it to stop as soon as fewer bytes than a node
\* header remain instead of when none remain
PathOffsetsSlack(buf, junk, path, remaining) ==
    LET Found(rest) == IF rest # << >> /\ rest[1] < 0 THEN << -1 >> ELSE << path >> \o rest
        Advance(len) == Found(PathOffsetsSlack(buf, junk, path + len, remaining - len))
    IN  IF remaining < END_DEVICE_PATH_LENGTH THEN << >>
        ELSE IF ~ efidp_valid(buf, junk, path, remaining) THEN << -1 >>
        ELSE Advance(efidp_len(buf, junk, path))

RECURSIVE PathOffsets(_, _, _, _)
\* the validation loop of efiboot_from_option over the device path list: the
\* offsets of the paths found, or <<-1>> when efidp_valid refuses one
PathOffsets(buf, junk, path, remaining) ==
    LET Found(rest) == IF rest # << >> /\ rest[1] < 0 THEN << -1 >> ELSE << path >> \o rest
        Advance(len) == Found(PathOffsets(buf, junk, path + len, remaining - len))
    IN  IF remaining = 0 THEN << >>
        ELSE IF ~ efidp_valid(buf, junk, path, remaining) THEN << -1 >>
        ELSE Advance(efidp_len(buf, junk, path))

\* the path pointers efiboot_from_option sets up over its copy of the list
PathList(buf, junk, offsets) ==
    [i \in 1..Len(offsets) |->
        [path |-> Bytes(buf, offsets[i], efidp_len(buf, junk, offsets[i])),
         text |-> NULLBUF]]

\* efiboot_from_option ( option, len ): option is the buffer buf
efiboot_from_option(buf, len, junk) ==
    LET bad == [ok |-> FALSE, errno |-> "EINVAL"]
        desc == SIZEOF_EFI_LOAD_OPTION
        Populate(desclen, FilePathListLength, offsets, description, datalen) ==
            IF offsets = << >> \/ offsets[1] < 0 THEN bad
            ELSE IF description = NULLBUF THEN [ok |-> FALSE, errno |-> "EILSEQ"]
            ELSE [ok |-> TRUE, errno |-> "",
                  entry |-> [
                    modified |-> FALSE,
                    type |-> EFIBOOT_TYPE_BOOT,
                    index |-> EFIBOOT_INDEX_AUTO,
                    attributes |-> Mem32(buf, junk, 0),
                    description |-> description,
                    paths |-> PathList(buf, junk, offsets),
                    data |-> Bytes(buf, len - datalen, datalen),
                    name |-> ""]]
        Validate(remaining, desclen, FilePathListLength) ==
            IF desclen > remaining THEN bad
            ELSE IF FilePathListLength > remaining - desclen THEN bad
            ELSE Populate(desclen, FilePathListLength,
                     PathOffsets(buf, junk, desc + desclen, FilePathListLength),
                     efi_to_utf8([k \in 1..((desclen \div 2) - 1) |->
                                     Mem16(buf, junk, desc + 2 * (k - 1))]),
                     len - SIZEOF_EFI_LOAD_OPTION - desclen - FilePathListLength)
    IN  IF len < SIZEOF_EFI_LOAD_OPTION THEN bad
        ELSE Validate(len - SIZEOF_EFI_LOAD_OPTION,
                      StrnSizeS(buf, junk, desc, len - SIZEOF_EFI_LOAD_OPTION),
                      Mem16(buf, junk, 4))

\* the lengths efiboot_to_option finds for the paths of an entry
PathLens(entry) ==
    [i \in 1..Len(entry.paths) |-> efidp_len(entry.paths[i].path, 0, 0)]

\* efiboot_to_option, were it to leave the optional data out of the copy
efiboot_to_option_nodata(entry) ==
    LET Construct(desc, pathlens) ==
            IF desc = NULLBUF THEN [ok |-> FALSE, errno |-> "EILSEQ", option |-> << >>]
            ELSE [ok |-> TRUE, errno |-> "",
                  option |-> LE32(entry.attributes) \o LE16(SumSeq(pathlens))
                             \o Bytes(UnitBytes(desc), 0, StrSize(desc))
                             \o Flatten([i \in 1..Len(entry.paths) |->
                                           Bytes(entry.paths[i].path, 0, pathlens[i])])]
    IN  Construct(utf8_to_efi(entry.description), PathLens(entry))

\* efiboot_to_option ( entry, len ): the option bytes; *len is their number
efiboot_to_option(entry) ==
    LET Construct(desc, pathlens) ==
            IF desc = NULLBUF THEN [ok |-> FALSE, errno |-> "EILSEQ", option |-> << >>]
            ELSE [ok |-> TRUE, errno |-> "",
                  option |-> LE32(entry.attributes) \o LE16(SumSeq(pathlens))
                             \o Bytes(UnitBytes(desc), 0, StrSize(desc))
                             \o Flatten([i \in 1..Len(entry.paths) |->
                                           Bytes(entry.paths[i].path, 0, pathlens[i])])
                             \o entry.data]
    IN  Construct(utf8_to_efi(entry.description), PathLens(entry))

\* efiboot_set_type_index ( entry, type, index )
\* crash: the call never returned
efiboot_set_type_index(entry, type, index, ub) ==
    LET Update(name) ==
            IF name.crash
            THEN [ok |-> FALSE, crash |-> TRUE, errno |-> "", entry |-> entry]
            ELSE [ok |-> TRUE, crash |-> FALSE, errno |-> "",
                  entry |-> [entry EXCEPT
                      !.type = type,
                      !.index = index,
                      !.name = IF name.ok THEN name.name ELSE "",
                      !.modified = TRUE]]
    IN  IF type < 0 \/ type > EFIBOOT_TYPE_MAX
        THEN [ok |-> FALSE, crash |-> FALSE, errno |-> "EINVAL", entry |-> entry]
        ELSE IF UGreater(index, EFIBOOT_INDEX_MAX) /\ index # EFIBOOT_INDEX_AUTO
        THEN [ok |-> FALSE, crash |-> FALSE, errno |-> "EINVAL", entry |-> entry]
        ELSE Update(efiboot_index_name(type, index, ub))

\* efiboot_set_type ( entry, type )
efiboot_set_type(entry, type, ub) == efiboot_set_type_index(entry, type, entry.index, ub)

\* efiboot_set_index ( entry, index )
efiboot_set_index(entry, index, ub) == efiboot_set_type_index(entry, entry.type, index, ub)

\* efiboot_set_attributes, were it to mark the entry only when the value changes
efiboot_set_attributes_ifchanged(entry, attributes) ==
    [ok |-> TRUE, errno |-> "",
     entry |-> [entry EXCEPT !.attributes = attributes,
                             !.modified = entry.modified \/ attributes # entry.attributes]]

\* efiboot_set_attributes ( entry, attributes )
efiboot_set_attributes(entry, attributes) ==
    [ok |-> TRUE, errno |-> "",
     entry |-> [entry EXCEPT !.attributes = attributes, !.modified = TRUE]]

\* efiboot_set_description ( entry, desc )
efiboot_set_description(entry, desc) ==
    [ok |-> TRUE, errno |-> "",
     entry |-> [entry EXCEPT !.description = desc, !.modified = TRUE]]

\* efiboot_path_count ( entry )
efiboot_path_count(entry) == Len(entry.paths)

\* efiboot_path ( entry, index ): the path, or NULLBUF for a NULL pointer
efiboot_path(entry, index) ==
    IF index >= Len(entry.paths) THEN NULLBUF ELSE entry.paths[index + 1].path

\* efiboot_path_text ( entry, index ): the text returned, and the entry with
\* the text in its cache
efiboot_path_text(entry, index) ==
    LET Cached(text) ==
            [ok |-> text # NULLBUF, errno |-> IF text # NULLBUF THEN "" ELSE "EILSEQ",
             text |-> text,
             entry |-> [entry EXCEPT !.paths[index + 1].text = text]]
    IN  IF index >= Len(entry.paths)
        THEN [ok |-> FALSE, errno |-> "EINVAL", text |-> NULLBUF, entry |-> entry]
        ELSE IF entry.paths[index + 1].text # NULLBUF
        THEN [ok |-> TRUE, errno |-> "", text |-> entry.paths[index + 1].text,
              entry |-> entry]
        ELSE Cached(efidp_to_text(entry.paths[index + 1].path, FALSE, TRUE).text)

\* efiboot_set_paths, were it to accept an empty list
efiboot_set_paths_unchecked(entry, paths, count) ==
    [ok |-> TRUE, errno |-> "",
     entry |-> [entry EXCEPT
         !.paths = [i \in 1..count |->
             [path |-> Bytes(paths[i], 0, efidp_len(paths[i], 0, 0)),
              text |-> NULLBUF]],
         !.modified = TRUE]]

\* efiboot_set_paths ( entry, paths, count ): paths[i] is the memory the
\* caller's i-th pointer points to
efiboot_set_paths(entry, paths, count) ==
    IF count < 1 THEN [ok |-> FALSE, errno |-> "EINVAL", entry |-> entry]
    ELSE [ok |-> TRUE, errno |-> "",
          entry |-> [entry EXCEPT
              !.paths = [i \in 1..count |->
                  [path |-> Bytes(paths[i], 0, efidp_len(paths[i], 0, 0)),
                   text |-> NULLBUF]],
              !.modified = TRUE]]

\* efiboot_set_path, were it to replace the path and keep the cached texts
efiboot_set_path_keeptext(entry, index, path) ==
    IF index >= Len(entry.paths) THEN [ok |-> FALSE, errno |-> "EINVAL", entry |-> entry]
    ELSE [ok |-> TRUE, errno |-> "",
          entry |-> [entry EXCEPT
              !.paths[index + 1].path = Bytes(path, 0, efidp_len(path, 0, 0)),
              !.modified = TRUE]]

\* efiboot_set_path ( entry, index, path )
efiboot_set_path(entry, index, path) ==
    IF index >= Len(entry.paths) THEN [ok |-> FALSE, errno |-> "EINVAL", entry |-> entry]
    ELSE efiboot_set_paths(entry,
             [i \in 1..Len(entry.paths) |->
                 IF i = index + 1 THEN path ELSE entry.paths[i].path],
             Len(entry.paths))

\* efiboot_set_data ( entry, data, len )
efiboot_set_data(entry, data, len) ==
    [ok |-> TRUE, errno |-> "",
     entry |-> [entry EXCEPT !.data = Bytes(data, 0, len), !.modified = TRUE]]

\* efiboot_clear_data ( entry )
efiboot_clear_data(entry) == efiboot_set_data(entry, << >>, 0)


\* "Unknown" in UTF-8
DescUnknown == << 85, 110, 107, 110, 111, 119, 110 >>

\* efiboot_new ( )
efiboot_new ==
    efiboot_set_paths(
        efiboot_set_description(
            [modified |-> TRUE,
             type |-> EFIBOOT_TYPE_BOOT,
             index |-> EFIBOOT_INDEX_AUTO,
             attributes |-> LOAD_OPTION_ACTIVE,
             description |-> << >>,
             paths |-> << >>,
             data |-> << >>,
             name |-> ""],
            DescUnknown).entry,
        << EFIDP_END >>, 1).entry

(***************************************************************************)
(* EFI variable access (efivars.c).  The store st maps the names of the    *)
(* variables that exist to their values.  env is the platform: backend is  *)
(* the back-end compiled in, fault the condition of the platform:          *)
(*   none    variables can be read and written                             *)
(*   denied  the process cannot obtain the privilege to touch variables    *)
(*   io      the firmware call fails with a transport error                *)
(*   nosys   the firmware has no variable services                         *)
(* and preset is what the firmware holds besides st: nothing ("none"), or   *)
(* a load option under Boot%04X for every index st does not name ("full"). *)
(***************************************************************************)
\* the names of the Boot entry variables of all indices
FullNames == {"Boot" \o Hex04X(index) : index \in 0..EFIBOOT_INDEX_MAX}

\* the load option a preset variable holds: ACTIVE, description "", the path
\* of a new entry
FullOption == LE32(LOAD_OPTION_ACTIVE) \o LE16(END_DEVICE_PATH_LENGTH) \o << 0, 0 >>
                  \o EFIDP_END

\* the firmware holds a variable of this name
Present(st, env, name) ==
    name \in DOMAIN st \/ (env.preset = "full" /\ name \in FullNames)

\* the value of the variable of this name
Content(st, env, name) == IF name \in DOMAIN st THEN st[name] ELSE FullOption

\* efivars_raise ( ): the static flag only saves repeating the work
efivars_raise(env) == env.fault # "denied"

\* efivars_read ( name, data, len )
efivars_read(st, env, name) ==
    LET fail(e) == [ok |-> FALSE, errno |-> e, data |-> << >>]
        good == [ok |-> TRUE, errno |-> "", data |-> Content(st, env, name)]
    IN  CASE env.backend = "linux" ->
               IF env.fault = "io" THEN fail("EIO")
               ELSE IF ~ Present(st, env, name) THEN fail("ENOENT")
               ELSE good
          [] env.backend = "windows" ->
               IF ~ efivars_raise(env) THEN fail("EPERM")
               ELSE IF env.fault = "nosys" THEN fail("ENOSYS")
               ELSE IF env.fault = "io" THEN fail("ENOENT")
               ELSE IF ~ Present(st, env, name) THEN fail("ENOENT")
               ELSE IF Len(Content(st, env, name)) > EFIVARS_MAX_LEN THEN fail("ENOENT")
               ELSE IF Len(Content(st, env, name)) = 0 THEN fail("ENOENT")
               ELSE good
          [] env.backend = "dummy" -> fail("ENOTSUP")

\* efivars_exists ( name )
efivars_exists(st, env, name) ==
    CASE env.backend = "linux" -> Present(st, env, name)
      [] env.backend = "windows" -> efivars_read(st, env, name).ok
      [] env.backend = "dummy" -> FALSE

\* the store after a variable is created or replaced
StoreSet(st, name, data) ==
    [n \in DOMAIN st \cup {name} |-> IF n = name THEN data ELSE st[n]]

\* efivars_write ( name, data, len ).  A NULL name is undefined behaviour in
\* libefivar (the name is declared non-null): ub is what the build makes of
\* it, a fault of the process ("crash") or the text "(null)" ("nullname").
efivars_write(st, env, name, data, ub) ==
    LET fail(e) == [ok |-> FALSE, crash |-> FALSE, errno |-> e, store |-> st, name |-> name]
    IN  CASE env.backend = "linux" ->
               IF name = NULL /\ ub = "crash"
               THEN [ok |-> FALSE, crash |-> TRUE, errno |-> "", store |-> st, name |-> name]
               ELSE IF env.fault = "io" THEN fail("EIO")
               ELSE LET n == IF name = NULL THEN "(null)" ELSE name
                    IN  [ok |-> TRUE, crash |-> FALSE, errno |-> "",
                         store |-> StoreSet(st, n, data), name |-> n]
          [] env.backend = "windows" ->
               IF ~ efivars_raise(env) THEN fail("EPERM")
               ELSE IF name = NULL \/ env.fault # "none" THEN fail("EACCES")
               ELSE [ok |-> TRUE, crash |-> FALSE, errno |-> "",
                     store |-> StoreSet(st, name, data), name |-> name]
          [] env.backend = "dummy" -> fail("ENOTSUP")

\* efivars_delete ( name ): the variable is removed; it fails where
\* efivars_write fails and when there is no variable of the name
efivars_delete(st, env, name) ==
    LET fail(e) == [ok |-> FALSE, errno |-> e, store |-> st]
        gone == [ok |-> TRUE, errno |-> "",
                 store |-> [n \in DOMAIN st \ {name} |-> st[n]]]
    IN  CASE env.backend = "linux" ->
               IF env.fault = "io" THEN fail("EIO")
               ELSE IF name \notin DOMAIN st THEN fail("ENOENT")
               ELSE gone
          [] env.backend = "windows" ->
               IF ~ efivars_raise(env) THEN fail("EPERM")
               ELSE IF env.fault # "none" THEN fail("EACCES")
               ELSE IF name \notin DOMAIN st THEN fail("ENOENT")
               ELSE gone
          [] env.backend = "dummy" -> fail("ENOTSUP")

(***************************************************************************)
(* Loading and saving entries                                              *)
(***************************************************************************)
\* the loop of efiboot_autoindex: the first index whose name can be
\* constructed and does not exist, or -1 when the loop runs to its end
AutoIndexScan(entry, st, env, ub) ==
    LET Unused(name) == name.ok /\ ~ efivars_exists(st, env, name.name)
        Free(index) == Unused(efiboot_index_name(entry.type, index, ub))
    IN  IF \A index \in 0..EFIBOOT_INDEX_MAX : ~ Free(index) THEN -1
        ELSE CHOOSE index \in 0..EFIBOOT_INDEX_MAX :
                 Free(index) /\ \A below \in 0..(index - 1) : ~ Free(below)

\* efiboot_autoindex ( entry )
efiboot_autoindex(entry, st, env, ub) ==
    LET Record(index) ==
            IF index < 0
            THEN [ok |-> FALSE, crash |-> FALSE, errno |-> "ENOSPC", entry |-> entry]
            ELSE [ok |-> TRUE, crash |-> FALSE, errno |-> "",
                  entry |-> [entry EXCEPT !.index = index, !.modified = TRUE]]
    IN  IF efiboot_index_name(entry.type, 0, ub).crash
        THEN [ok |-> FALSE, crash |-> TRUE, errno |-> "", entry |-> entry]
        ELSE Record(AutoIndexScan(entry, st, env, ub))

\* efiboot_load ( type, index )
efiboot_load(type, index, st, env, ub) ==
    LET Record(name, parsed) ==
            IF ~ parsed.ok THEN [ok |-> FALSE, crash |-> FALSE, errno |-> parsed.errno]
            ELSE [ok |-> TRUE, crash |-> FALSE, errno |-> "",
                  entry |-> [parsed.entry EXCEPT
                      !.type = type, !.index = index, !.name = name.name]]
        Parse(name, rd) ==
            IF ~ rd.ok THEN [ok |-> FALSE, crash |-> FALSE, errno |-> rd.errno]
            ELSE Record(name, efiboot_from_option(rd.data, Len(rd.data), 0))
        Read(name) ==
            IF name.crash THEN [ok |-> FALSE, crash |-> TRUE, errno |-> ""]
            ELSE IF ~ name.ok THEN [ok |-> FALSE, crash |-> FALSE, errno |-> "EINVAL"]
            ELSE Parse(name, efivars_read(st, env, name.name))
    IN  Read(efiboot_index_name(type, index, ub))

\* efiboot_save, were it to write the entry whether modified or not
efiboot_save_always(entry, st, env, ub) ==
    LET Failed(e, errno) ==
            [ok |-> FALSE, crash |-> FALSE, errno |-> errno, entry |-> e,
             store |-> st, writes |-> << >>]
        Written(auto, wr) ==
            IF ~ wr.ok
            THEN [ok |-> FALSE, crash |-> wr.crash, errno |-> wr.errno,
                  entry |-> auto.entry, store |-> st,
                  writes |-> << efiboot_name(auto.entry) >>]
            ELSE [ok |-> TRUE, crash |-> FALSE, errno |-> "",
                  entry |-> [auto.entry EXCEPT !.modified = FALSE],
                  store |-> wr.store,
                  writes |-> << efiboot_name(auto.entry) >>]
        Write(auto, opt) ==
            IF ~ opt.ok THEN Failed(auto.entry, opt.errno)
            ELSE Written(auto,
                     efivars_write(st, env, efiboot_name(auto.entry), opt.option, ub))
        Construct(auto) ==
            IF auto.crash
            THEN [ok |-> FALSE, crash |-> TRUE, errno |-> "", entry |-> auto.entry,
                  store |-> st, writes |-> << >>]
            ELSE IF ~ auto.ok THEN Failed(auto.entry, auto.errno)
            ELSE Write(auto, efiboot_to_option(auto.entry))
    IN  IF entry.index = EFIBOOT_INDEX_AUTO
        THEN Construct(efiboot_autoindex(entry, st, env, ub))
        ELSE Construct([ok |-> TRUE, crash |-> FALSE, errno |-> "", entry |-> entry])

\* efiboot_save ( entry ): ok is the return value, crash that the call never
\* returned, writes the names handed to efivars_write in order
efiboot_save(entry, st, env, ub) ==
    LET Failed(e, errno) ==
            [ok |-> FALSE, crash |-> FALSE, errno |-> errno, entry |-> e,
             store |-> st, writes |-> << >>]
        Written(auto, wr) ==
            IF ~ wr.ok
            THEN [ok |-> FALSE, crash |-> wr.crash, errno |-> wr.errno,
                  entry |-> auto.entry, store |-> st,
                  writes |-> << efiboot_name(auto.entry) >>]
            ELSE [ok |-> TRUE, crash |-> FALSE, errno |-> "",
                  entry |-> [auto.entry EXCEPT !.modified = FALSE],
                  store |-> wr.store,
                  writes |-> << efiboot_name(auto.entry) >>]
        Write(auto, opt) ==
            IF ~ opt.ok THEN Failed(auto.entry, opt.errno)
            ELSE Written(auto,
                     efivars_write(st, env, efiboot_name(auto.entry), opt.option, ub))
        Construct(auto) ==
            IF auto.crash
            THEN [ok |-> FALSE, crash |-> TRUE, errno |-> "", entry |-> auto.entry,
                  store |-> st, writes |-> << >>]
            ELSE IF ~ auto.ok THEN Failed(auto.entry, auto.errno)
            ELSE Write(auto, efiboot_to_option(auto.entry))
    IN  IF ~ entry.modified
        THEN [ok |-> TRUE, crash |-> FALSE, errno |-> "", entry |-> entry,
              store |-> st, writes |-> << >>]
        ELSE IF entry.index = EFIBOOT_INDEX_AUTO
        THEN Construct(efiboot_autoindex(entry, st, env, ub))
        ELSE Construct([ok |-> TRUE, crash |-> FALSE, errno |-> "", entry |-> entry])

RECURSIVE LoadEach(_, _, _, _, _, _)
\* the loading loop of efiboot_load_all from position i of the order data
LoadEach(type, data, i, st, env, ub) ==
    LET Collect(one, rest) ==
            IF ~ rest.ok THEN rest
            ELSE [ok |-> TRUE, crash |-> FALSE, errno |-> "",
                  entries |-> << one.entry >> \o rest.entries]
        Loaded(one) ==
            IF ~ one.ok
            THEN [ok |-> FALSE, crash |-> one.crash, errno |-> one.errno, entries |-> << >>]
            ELSE Collect(one, LoadEach(type, data, i + 1, st, env, ub))
    IN  IF i >= Len(data) \div 2
        THEN [ok |-> TRUE, crash |-> FALSE, errno |-> "", entries |-> << >>]
        ELSE Loaded(efiboot_load(type, Mem16(data, 0, 2 * i), st, env, ub))

\* efiboot_load_all ( type ): entries is the list without its NULL terminator
efiboot_load_all(type, st, env, ub) ==
    LET Order(rd) ==
            IF ~ rd.ok /\ rd.errno # "ENOENT"
            THEN [ok |-> FALSE, crash |-> FALSE, errno |-> rd.errno, entries |-> << >>]
            ELSE LoadEach(type, IF rd.ok THEN rd.data ELSE << >>, 0, st, env, ub)
        Read(name) ==
            IF name.crash
            THEN [ok |-> FALSE, crash |-> TRUE, errno |-> "", entries |-> << >>]
            ELSE IF ~ name.ok
            THEN [ok |-> FALSE, crash |-> FALSE, errno |-> "EINVAL", entries |-> << >>]
            ELSE Order(efivars_read(st, env, name.name))
    IN  Read(efiboot_order_name(type, ub))

RECURSIVE SaveEach(_, _, _, _, _, _)
\* the saving loop of efiboot_save_all from position i (1-based) on
SaveEach(type, entries, i, st, env, ub) ==
    LET Later(sv, rest) == [rest EXCEPT !.writes = sv.writes \o rest.writes]
        Saved(sv, saved) ==
            IF ~ sv.ok
            THEN [ok |-> FALSE, crash |-> sv.crash, errno |-> sv.errno, entries |-> saved,
                  store |-> sv.store, writes |-> sv.writes]
            ELSE Later(sv, SaveEach(type, saved, i + 1, sv.store, env, ub))
        Save(sv) == Saved(sv, [entries EXCEPT ![i] = sv.entry])
    IN  IF i > Len(entries)
        THEN [ok |-> TRUE, crash |-> FALSE, errno |-> "", entries |-> entries,
              store |-> st, writes |-> << >>]
        ELSE IF entries[i].type # type
        THEN [ok |-> FALSE, crash |-> FALSE, errno |-> "EINVAL", entries |-> entries,
              store |-> st, writes |-> << >>]
        ELSE Save(efiboot_save(entries[i], st, env, ub))

\* the order variable efiboot_save_all constructs
OrderOf(entries) == Flatten([i \in 1..Len(entries) |-> LE16(entries[i].index)])

\* efiboot_save_all, were it to write the order variable after a failure too
efiboot_save_all_then_order(type, entries, st, env, ub) ==
    LET Written(name, each, wr) ==
            [ok |-> each.ok /\ wr.ok, crash |-> each.crash \/ wr.crash,
             errno |-> IF each.ok THEN wr.errno ELSE each.errno,
             entries |-> each.entries, store |-> wr.store,
             writes |-> each.writes \o << name.name >>]
        Order(name, each) ==
            IF each.crash THEN each
            ELSE Written(name, each,
                     efivars_write(each.store, env, name.name, OrderOf(each.entries), ub))
        Each(name) ==
            IF ~ name.ok
            THEN [ok |-> FALSE, crash |-> name.crash,
                  errno |-> IF name.crash THEN "" ELSE "EINVAL", entries |-> entries,
                  store |-> st, writes |-> << >>]
            ELSE Order(name, SaveEach(type, entries, 1, st, env, ub))
    IN  Each(efiboot_order_name(type, ub))

\* efiboot_save_all ( type, entries )
efiboot_save_all(type, entries, st, env, ub) ==
    LET Written(name, each, wr) ==
            [ok |-> wr.ok, crash |-> wr.crash, errno |-> wr.errno,
             entries |-> each.entries, store |-> wr.store,
             writes |-> each.writes \o << name.name >>]
        Order(name, each) ==
            IF ~ each.ok THEN each
            ELSE Written(name, each,
                     efivars_write(each.store, env, name.name, OrderOf(each.entries), ub))
        Each(name) ==
            IF ~ name.ok
            THEN [ok |-> FALSE, crash |-> name.crash,
                  errno |-> IF name.crash THEN "" ELSE "EINVAL", entries |-> entries,
                  store |-> st, writes |-> << >>]
            ELSE Order(name, SaveEach(type, entries, 1, st, env, ub))
    IN  Each(efiboot_order_name(type, ub))

\* efiboot_del ( entry ): deletes the variable the entry names, if it names
\* one; the order variable is not touched
efiboot_del(entry, st, env) ==
    IF efiboot_name(entry) = NULL
    THEN [ok |-> FALSE, errno |-> "EINVAL", store |-> st]
    ELSE efivars_delete(st, env, efiboot_name(entry))

(***************************************************************************)
(* Values the callers and the firmware of the model use                    *)
(***************************************************************************)
\* a file path node "x" and its end node
PathX == << MEDIA_DEVICE_PATH, MEDIA_FILEPATH_DP, 8, 0, 120, 0, 0, 0 >> \o EFIDP_END

\* a PCI node and its end node
PathY == << 1, 1, 6, 0, 5, 6 >> \o EFIDP_END

\* attributes ACTIVE, description "A", path PathX, optional data 1 2 3
RecA == LE32(LOAD_OPTION_ACTIVE) \o LE16(Len(PathX)) \o << 65, 0, 0, 0 >>
            \o PathX \o << 1, 2, 3 >>

\* attributes ACTIVE and HIDDEN (8), empty description, paths PathX and PathY, no data
RecB == LE32(LOAD_OPTION_ACTIVE + 8) \o LE16(Len(PathX) + Len(PathY))
            \o << 0, 0 >> \o PathX \o PathY

\* a load option larger than EFIVARS_MAX_LEN
RecBig == LE32(LOAD_OPTION_ACTIVE) \o LE16(END_DEVICE_PATH_LENGTH) \o << 0, 0 >>
              \o EFIDP_END \o [i \in 1..(EFIVARS_MAX_LEN - 10) |-> 0]

\* an order variable larger than EFIVARS_MAX_LEN
OrderBig == [i \in 1..(EFIVARS_MAX_LEN + 2) |-> 9]

EmptyStore == [n \in {} |-> << >>]

StoreTwo ==
    [n \in {"Boot0000", "Boot0002", "BootOrder"} |->
        CASE n = "Boot0000" -> RecA
          [] n = "Boot0002" -> RecB
          [] n = "BootOrder" -> LE16(2) \o LE16(0) \o LE16(2)]

StoreBigEntry == [n \in {"Boot0000"} |-> RecBig]

StoreBigOrder == [n \in {"Boot0000", "BootOrder"} |->
                     IF n = "Boot0000" THEN RecA ELSE OrderBig]

StoreEmptyOrder == [n \in {"Boot0000", "BootOrder"} |->
                       IF n = "Boot0000" THEN RecA ELSE << >>]

\* the platforms and firmware contents a run starts from
Platforms ==
    {[env |-> [backend |-> "linux", fault |-> "none", preset |-> "none"], store |-> s] :
        s \in {EmptyStore, StoreTwo, StoreEmptyOrder}}
    \cup {[env |-> [backend |-> "linux", fault |-> "io", preset |-> "none"], store |-> StoreTwo]}
    \cup {[env |-> [backend |-> "windows", fault |-> "none", preset |-> "none"], store |-> s] :
        s \in {EmptyStore, StoreTwo, StoreBigEntry, StoreBigOrder, StoreEmptyOrder}}
    \cup {[env |-> [backend |-> "windows", fault |-> f, preset |-> "none"], store |-> StoreTwo] :
        f \in {"denied", "io", "nosys"}}
    \cup {[env |-> [backend |-> "dummy", fault |-> "none", preset |-> "none"], store |-> EmptyStore]}

Types == {0, EFIBOOT_TYPE_BOOT, EFIBOOT_TYPE_DRIVER, 4}

Indices == {0, 2, EFIBOOT_INDEX_MAX + 1, EFIBOOT_INDEX_AUTO}

Outcomes == {"crash", "nullname"}

ExtNames == {"Boot0000", "Boot0001"}

MaxEntries == 2

MaxSteps == 4

VARIABLES
    store,      \* the firmware's variables: name -> value
    env,        \* the platform: back-end, its condition and the preset
    entries,    \* the caller's list of boot entries
    last,       \* the last call, its arguments and what it returned
    crashed,    \* the calling process has faulted
    steps,      \* calls made so far
    input,      \* the load option under test: base, kind, arg, bytes, junk
    option      \* the load option last constructed

vars == << store, env, entries, last, crashed, steps, input, option >>

NoInput == [base |-> << >>, kind |-> "none", arg |-> 0, bytes |-> << >>, junk |-> 0]

\* type is the type argument of the call, k the position in the list of the
\* entry it was made on, arg its index or count argument
Result(op, ok, errno, type, k, writes) ==
    [op |-> op, ok |-> ok, errno |-> errno, type |-> type, k |-> k, arg |-> 0,
     writes |-> writes]

Init ==
    /\ \E p \in Platforms : env = p.env /\ store = p.store
    /\ entries = << >>
    /\ last = Result("init", TRUE, "", 0, 0, << >>)
    /\ crashed = FALSE
    /\ steps = 0
    /\ input = NoInput
    /\ option = << >>

\* a call the process can make
Call ==
    /\ ~ crashed
    /\ steps < MaxSteps
    /\ steps' = steps + 1
    /\ UNCHANGED << env, input, option >>

\* efiboot_new ( ): the caller adds the entry to the list
New ==
    /\ Call
    /\ Len(entries) < MaxEntries
    /\ entries' = Append(entries, efiboot_new)
    /\ last' = Result("new", TRUE, "", 0, Len(entries) + 1, << >>)
    /\ UNCHANGED << store, crashed >>

\* the caller adds the entry a call returned to its list
Obtained(op, type, r) ==
    /\ entries' = IF r.ok THEN Append(entries, r.entry) ELSE entries
    /\ last' = Result(op, r.ok, r.errno, type, Len(entries) + 1, << >>)

\* efiboot_from_option ( option, len )
FromOption ==
    /\ Call
    /\ Len(entries) < MaxEntries
    /\ \E r \in {RecA, Bytes(RecA, 0, Len(RecA) - 4)} :
        Obtained("from_option", 0, efiboot_from_option(r, Len(r), 0))
    /\ UNCHANGED << store, crashed >>

\* the caller adds the entry efiboot_load returned to its list
Fetched(type, index, r) ==
    /\ entries' = IF r.ok THEN Append(entries, r.entry) ELSE entries
    /\ last' = [Result("load", r.ok, r.errno, type, Len(entries) + 1, << >>)
                   EXCEPT !.arg = index]
    /\ crashed' = r.crash

\* efiboot_load ( type, index )
Load ==
    /\ Call
    /\ Len(entries) < MaxEntries
    /\ \E type \in Types, index \in Indices, ub \in Outcomes :
        Fetched(type, index, efiboot_load(type, index, store, env, ub))
    /\ UNCHANGED store

\* the caller's list becomes the list a call returned
Listed(type, r) ==
    /\ entries' = IF r.ok THEN r.entries ELSE entries
    /\ last' = Result("load_all", r.ok, r.errno, type, 0, << >>)
    /\ crashed' = r.crash

\* efiboot_load_all ( type )
LoadAll ==
    /\ Call
    /\ \E type \in Types, ub \in Outcomes :
        Listed(type, efiboot_load_all(type, store, env, ub))
    /\ UNCHANGED store

\* a setter returning r called on the k-th entry
Setter(op, k, r) ==
    /\ entries' = [entries EXCEPT ![k] = r.entry]
    /\ last' = Result(op, r.ok, r.errno, 0, k, << >>)
    /\ UNCHANGED << store, crashed >>

\* a setter of type and index returning r called on the k-th entry
Renamed(op, k, type, index, r) ==
    /\ entries' = [entries EXCEPT ![k] = r.entry]
    /\ last' = [Result(op, r.ok, r.errno, type, k, << >>) EXCEPT !.arg = index]
    /\ crashed' = r.crash
    /\ UNCHANGED store

SetType ==
    /\ Call
    /\ \E k \in 1..Len(entries), type \in Types, ub \in Outcomes :
        Renamed("set_type", k, type, entries[k].index,
                efiboot_set_type(entries[k], type, ub))

SetIndex ==
    /\ Call
    /\ \E k \in 1..Len(entries), index \in Indices, ub \in Outcomes :
        Renamed("set_index", k, entries[k].type, index,
                efiboot_set_index(entries[k], index, ub))

SetAttributes ==
    /\ Call
    /\ \E k \in 1..Len(entries) :
        Setter("set_attributes", k,
               efiboot_set_attributes(entries[k], LOAD_OPTION_ACTIVE + 8))

SetDescription ==
    /\ Call
    /\ \E k \in 1..Len(entries) :
        Setter("set_description", k, efiboot_set_description(entries[k], << 66 >>))

\* a setter of paths returning r called on the k-th entry with the count
\* or path index arg
Counted(op, k, arg, r) ==
    /\ entries' = [entries EXCEPT ![k] = r.entry]
    /\ last' = [Result(op, r.ok, r.errno, 0, k, << >>) EXCEPT !.arg = arg]
    /\ UNCHANGED << store, crashed >>

SetPaths ==
    /\ Call
    /\ \E k \in 1..Len(entries), paths \in {<< >>, << PathY, PathX >>} :
        Counted("set_paths", k, Len(paths),
                efiboot_set_paths(entries[k], paths, Len(paths)))

SetPath ==
    /\ Call
    /\ \E k \in 1..Len(entries), index \in {0, 2} :
        Counted("set_path", k, index, efiboot_set_path(entries[k], index, PathY))

SetData ==
    /\ Call
    /\ \E k \in 1..Len(entries) :
        Setter("set_data", k, efiboot_set_data(entries[k], << 7 >>, 1))

ClearData ==
    /\ Call
    /\ \E k \in 1..Len(entries) :
        Setter("clear_data", k, efiboot_clear_data(entries[k]))

\* what a saving call leaves behind: r.entry for the k-th entry, or r.entries
Stored(op, type, k, r) ==
    /\ entries' = IF k = 0 THEN r.entries ELSE [entries EXCEPT ![k] = r.entry]
    /\ store' = r.store
    /\ crashed' = r.crash
    /\ last' = Result(op, r.ok, r.errno, type, k, r.writes)

\* efiboot_save ( entry ) on the k-th entry
Save ==
    /\ Call
    /\ \E k \in 1..Len(entries), ub \in Outcomes :
        Stored("save", entries[k].type, k, efiboot_save(entries[k], store, env, ub))

\* efiboot_save_all ( type, entries )
SaveAll ==
    /\ Call
    /\ \E type \in Types, ub \in Outcomes :
        Stored("save_all", type, 0, efiboot_save_all(type, entries, store, env, ub))

\* the caller reorders its list
Reorder ==
    /\ Call
    /\ Len(entries) >= 2
    /\ entries' = << entries[2], entries[1] >> \o SubSeq(entries, 3, Len(entries))
    /\ last' = Result("reorder", TRUE, "", 0, 0, << >>)
    /\ UNCHANGED << store, crashed >>

\* another party creates or deletes a variable between two calls
External ==
    /\ steps < MaxSteps
    /\ steps' = steps + 1
    /\ env.backend # "dummy"
    /\ \E n \in ExtNames :
        store' = IF n \in DOMAIN store
                 THEN [m \in DOMAIN store \ {n} |-> store[m]]
                 ELSE StoreSet(store, n, RecB)
    /\ last' = Result("external", TRUE, "", 0, 0, << >>)
    /\ UNCHANGED << env, entries, crashed, input, option >>

Next ==
    \/ New \/ FromOption \/ Load \/ LoadAll
    \/ SetType \/ SetIndex \/ SetAttributes \/ SetDescription
    \/ SetPaths \/ SetPath \/ SetData \/ ClearData
    \/ Save \/ SaveAll \/ Reorder \/ External

Spec == Init /\ [][Next]_vars

(***************************************************************************)
(* The process alone: no other party touches the variables.                *)
(***************************************************************************)
NextQuiet ==
    \/ New \/ Load \/ LoadAll
    \/ SetIndex \/ SetAttributes
    \/ Save \/ SaveAll

SpecQuiet == Init /\ [][NextQuiet]_vars

(***************************************************************************)
(* A firmware in which every Boot index is taken: the preset holds a load  *)
(* option under each of Boot0000..BootFFFF, and store holds the variables  *)
(* that differ from it.                                                    *)
(***************************************************************************)
\* the variables differing from the preset: none, or one of the first
\* variables holding a load option of more than EFIVARS_MAX_LEN bytes
FullStores ==
    {EmptyStore} \cup {[n \in {"Boot" \o Hex04X(index)} |-> RecBig] : index \in 0..7}

\* the platforms with such a firmware
FullPlatforms ==
    {[env |-> [backend |-> "linux", fault |-> "none", preset |-> "full"],
      store |-> EmptyStore]}
    \cup {[env |-> [backend |-> "windows", fault |-> "none", preset |-> "full"],
           store |-> s] : s \in FullStores}

InitFull ==
    /\ \E p \in FullPlatforms : env = p.env /\ store = p.store
    /\ entries = << >>
    /\ last = Result("init", TRUE, "", 0, 0, << >>)
    /\ crashed = FALSE
    /\ steps = 0
    /\ input = NoInput
    /\ option = << >>

NextFull == New \/ Save

SpecFull == InitFull /\ [][NextFull]_vars

(***************************************************************************)
(* The load option codec on its own: a record is drawn, decoded with       *)
(* efiboot_from_option and encoded again with efiboot_to_option; or an     *)
(* entry built with efiboot_new and efiboot_set_paths is encoded.          *)
(***************************************************************************)
\* attributes ACTIVE, description U+00E9 U+20AC, path PathY, optional data
\* that reads as an end node
RecC == LE32(LOAD_OPTION_ACTIVE) \o LE16(Len(PathY)) \o << 233, 0, 172, 32, 0, 0 >>
            \o PathY \o EFIDP_END

\* a chain of 1028 bytes: a vendor node of length 0x400 and the end node
PathKilo == << 1, 4, 0, 4 >> \o [i \in 1..(4 * 256 - 4) |-> 0] \o EFIDP_END

\* the record with its FilePathListLength field replaced
WithFilePathListLength(rec, v) == Bytes(rec, 0, 4) \o LE16(v) \o Bytes(rec, 6, Len(rec) - 6)

\* the record with the byte at offset off replaced
WithByte(rec, off, v) == [rec EXCEPT ![off + 1] = v]

\* the records tried: a well-formed record as it is, with another
\* FilePathListLength, truncated by arg bytes, or with one byte replaced
\* (arg = 256 * offset + value); junk is what memory holds behind the record
InputsOf(base) ==
    {[base |-> base, kind |-> "none", arg |-> 0, bytes |-> base]}
    \cup {[base |-> base, kind |-> "fpll", arg |-> v,
           bytes |-> WithFilePathListLength(base, v)] :
             v \in {Mem16(base, 0, 4) - 1, Mem16(base, 0, 4) + 1, 0, Len(base),
                    Mem16(base, 0, 4) + END_DEVICE_PATH_LENGTH}}
    \cup {[base |-> base, kind |-> "trunc", arg |-> k,
           bytes |-> Bytes(base, 0, Len(base) - k)] : k \in 1..Len(base)}
    \cup {[base |-> base, kind |-> "poke", arg |-> 256 * o + v,
           bytes |-> WithByte(base, o, v)] :
             o \in 4..(Len(base) - 1), v \in {0, 3, 255}}

CodecInputs ==
    {[base |-> i.base, kind |-> i.kind, arg |-> i.arg, bytes |-> i.bytes, junk |-> j] :
        i \in InputsOf(RecA) \cup InputsOf(RecB) \cup InputsOf(RecC), j \in {0, 255}}

CodecEntries ==
    {efiboot_set_paths(efiboot_new, paths, Len(paths)).entry :
        paths \in {<< PathX >>, << PathY, PathX >>,
                   [i \in 1..63 |-> PathKilo], [i \in 1..64 |-> PathKilo]}}

InitCodec ==
    /\ env = [backend |-> "dummy", fault |-> "none", preset |-> "none"]
    /\ store = EmptyStore
    /\ last = Result("init", TRUE, "", 0, 0, << >>)
    /\ crashed = FALSE
    /\ steps = 0
    /\ option = << >>
    /\ \/ input \in CodecInputs /\ entries = << >>
       \/ input = NoInput /\ \E e \in CodecEntries : entries = << e >>

\* the caller keeps the entry efiboot_from_option returned
Decoded(r) ==
    /\ entries' = IF r.ok THEN << r.entry >> ELSE << >>
    /\ last' = Result("from_option", r.ok, r.errno, 0, 1, << >>)

\* efiboot_from_option ( input.bytes, Len(input.bytes) )
Decode ==
    /\ last.op = "init"
    /\ input # NoInput
    /\ Decoded(efiboot_from_option(input.bytes, Len(input.bytes), input.junk))
    /\ steps' = steps + 1
    /\ UNCHANGED << store, env, crashed, input, option >>

Encoded(r) ==
    /\ option' = r.option
    /\ last' = Result("to_option", r.ok, r.errno, 0, 1, << >>)

\* efiboot_to_option ( entry, &len )
Encode ==
    /\ last.op # "to_option"
    /\ Len(entries) = 1
    /\ Encoded(efiboot_to_option(entries[1]))
    /\ steps' = steps + 1
    /\ UNCHANGED << store, env, crashed, input, entries >>

NextCodec == Decode \/ Encode

SpecCodec == InitCodec /\ [][NextCodec]_vars

(***************************************************************************)
(* New entries saved to a firmware that holds Boot0000, Boot0001 and       *)
(* Boot0003 and nothing else; no other party touches the variables.        *)
(***************************************************************************)
StoreThree == [n \in {"Boot0000", "Boot0001", "Boot0003"} |-> RecA]

InitAuto ==
    /\ env \in {[backend |-> b, fault |-> "none", preset |-> "none"] :
                   b \in {"linux", "windows"}}
    /\ store = StoreThree
    /\ entries = << >>
    /\ last = Result("init", TRUE, "", 0, 0, << >>)
    /\ crashed = FALSE
    /\ steps = 0
    /\ input = NoInput
    /\ option = << >>

NextAuto == New \/ SetDescription \/ Save \/ SaveAll

SpecAuto == InitAuto /\ [][NextAuto]_vars

(***************************************************************************)
(* The delete command (efiboot.c): the list of a type is loaded, an entry  *)
(* is taken out of the list, the list is saved and the entry deleted.  The *)
(* entry taken out is kept in input.entry.                                 *)
(***************************************************************************)
\* BootOrder lists 0 and 2
StoreOnce ==
    [n \in {"Boot0000", "Boot0002", "BootOrder"} |->
        CASE n = "Boot0000" -> RecA
          [] n = "Boot0002" -> RecB
          [] n = "BootOrder" -> LE16(0) \o LE16(2)]

DelPlatforms ==
    {[env |-> [backend |-> b, fault |-> "none", preset |-> "none"], store |-> s] :
        b \in {"linux", "windows"}, s \in {StoreOnce, StoreTwo, StoreEmptyOrder}}
    \cup {[env |-> [backend |-> "windows", fault |-> "io", preset |-> "none"],
           store |-> StoreOnce]}

InitDel ==
    /\ \E p \in DelPlatforms : env = p.env /\ store = p.store
    /\ entries = << >>
    /\ last = Result("init", TRUE, "", 0, 0, << >>)
    /\ crashed = FALSE
    /\ steps = 0
    /\ input = NoInput
    /\ option = << >>

\* runs of the command, each of at most three calls
MaxRuns == 3

\* efiboot_command: the list of the type is loaded; the command is run
\* once the run before it has ended
Command ==
    /\ \/ last.op \in {"init", "del"}
       \/ last.op = "save_all" /\ ~ last.ok
    /\ ~ crashed
    /\ steps < 3 * MaxRuns
    /\ \E ub \in Outcomes :
        Listed(EFIBOOT_TYPE_BOOT, efiboot_load_all(EFIBOOT_TYPE_BOOT, store, env, ub))
    /\ steps' = steps + 1
    /\ UNCHANGED << store, env, input, option >>

\* the list without its entry at pos
Without(list, pos) == SubSeq(list, 1, pos - 1) \o SubSeq(list, pos + 1, Len(list))

\* delete_entry, first part: the entry at pos is removed from the list and
\* the list saved; the firmware condition may have changed since the load
DeleteSave ==
    /\ last.op = "load_all" /\ last.ok /\ ~ crashed
    /\ \E pos \in 1..Len(entries), ub \in Outcomes, f \in {"none", "io"} :
        /\ input' = [base |-> << >>, kind |-> "removed", arg |-> pos, bytes |-> << >>,
                     junk |-> 0, entry |-> entries[pos]]
        /\ env' = [env EXCEPT !.fault = f]
        /\ Stored("save_all", EFIBOOT_TYPE_BOOT, 0,
                  efiboot_save_all(EFIBOOT_TYPE_BOOT, Without(entries, pos), store,
                                   [env EXCEPT !.fault = f], ub))
    /\ steps' = steps + 1
    /\ UNCHANGED option

\* the caller is told what efiboot_del returned
Deleted(r) ==
    /\ store' = r.store
    /\ last' = Result("del", r.ok, r.errno, EFIBOOT_TYPE_BOOT, 0, << >>)

\* delete_entry, second part: only after the list was saved
DeleteDel ==
    /\ last.op = "save_all" /\ last.ok /\ ~ crashed
    /\ Deleted(efiboot_del(input.entry, store, env))
    /\ steps' = steps + 1
    /\ UNCHANGED << env, entries, crashed, input, option >>

NextDel == Command \/ DeleteSave \/ DeleteDel

SpecDel == InitDel /\ [][NextDel]_vars

(***************************************************************************)
(* The paths of one entry and their texts: the entry is new or decoded,    *)
(* its paths are replaced and their texts asked for.                       *)
(***************************************************************************)
InitPaths ==
    /\ env = [backend |-> "dummy", fault |-> "none", preset |-> "none"]
    /\ store = EmptyStore
    /\ \E e \in {efiboot_new, efiboot_from_option(RecA, Len(RecA), 0).entry,
                  efiboot_from_option(RecB, Len(RecB), 0).entry} : entries = << e >>
    /\ last = Result("init", TRUE, "", 0, 0, << >>)
    /\ crashed = FALSE
    /\ steps = 0
    /\ input = NoInput
    /\ option = << >>

\* the caller is handed the text; the entry keeps it
Texted(k, index, r) ==
    /\ entries' = [entries EXCEPT ![k] = r.entry]
    /\ option' = IF r.ok THEN r.text ELSE << >>
    /\ last' = [Result("path_text", r.ok, r.errno, 0, k, << >>) EXCEPT !.arg = index]

\* efiboot_path_text ( entry, index ) on the k-th entry
PathText ==
    /\ ~ crashed
    /\ steps < MaxSteps
    /\ steps' = steps + 1
    /\ \E k \in 1..Len(entries), index \in 0..2 :
        Texted(k, index, efiboot_path_text(entries[k], index))
    /\ UNCHANGED << store, env, crashed, input >>

NextPaths == PathText \/ SetPaths \/ SetPath

SpecPaths == InitPaths /\ [][NextPaths]_vars

(***************************************************************************)
(* The device path check on its own: a buffer and a bound are drawn and    *)
(* efidp_valid is applied to them.                                         *)
(***************************************************************************)
\* a PCI node, a file path node "x" and the end node
PathZ == << 1, 1, 6, 0, 5, 6 >> \o PathX

\* the buffers tried: a chain as it is, cut short by arg bytes, or with one
\* byte replaced (arg = 256 * offset + value)
BuffersOf(base) ==
    {[base |-> base, kind |-> "none", arg |-> 0, bytes |-> base]}
    \cup {[base |-> base, kind |-> "trunc", arg |-> k,
           bytes |-> Bytes(base, 0, Len(base) - k)] : k \in 1..(Len(base) - 1)}
    \cup {[base |-> base, kind |-> "poke", arg |-> 256 * o + v,
           bytes |-> WithByte(base, o, v)] :
             o \in 0..(Len(base) - 1), v \in {0, 3, 4, 127, 255}}

\* junk is what memory holds behind the buffer, max_len the bound passed:
\* none (0), the size of the buffer, or up to four bytes less
Bounded(i) ==
    {[base |-> i.base, kind |-> i.kind, arg |-> i.arg, bytes |-> i.bytes,
      junk |-> j, max_len |-> m] :
        j \in {0, 255},
        m \in {0} \cup ((Len(i.bytes) - 4)..Len(i.bytes))}

PathInputs ==
    UNION {Bounded(i) : i \in BuffersOf(EFIDP_END) \cup BuffersOf(PathX)
                                \cup BuffersOf(PathY) \cup BuffersOf(PathZ)}

InitPath ==
    /\ env = [backend |-> "dummy", fault |-> "none", preset |-> "none"]
    /\ store = EmptyStore
    /\ entries = << >>
    /\ last = Result("init", TRUE, "", 0, 0, << >>)
    /\ crashed = FALSE
    /\ steps = 0
    /\ option = << >>
    \* without a bound the caller passes a whole chain
    /\ input \in {i \in PathInputs :
                    /\ i.max_len >= 0
                    /\ i.max_len = 0 => (i.junk = 0 /\ i.kind # "trunc")}

\* efidp_valid ( input.bytes, input.max_len )
Valid ==
    /\ last.op = "init"
    /\ last' = [Result("efidp_valid",
                        efidp_valid(input.bytes, input.junk, 0, input.max_len),
                        "", 0, 0, << >>) EXCEPT !.arg = input.max_len]
    /\ steps' = steps + 1
    /\ UNCHANGED << store, env, entries, crashed, input, option >>

NextPath == Valid

SpecPath == InitPath /\ [][NextPath]_vars

(***************************************************************************)
(* The text conversions on their own: a text is parsed, or a chain is      *)
(* written as text and the text parsed again.                              *)
(***************************************************************************)
\* "Uri(x)", "URI(x)", "a", "a()", "a(b)c", "-(x)", "\a"
Segments ==
    { << 85, 114, 105, 40, 120, 41 >>, << 85, 82, 73, 40, 120, 41 >>, << 97 >>,
      << 97, 40, 41 >>, << 97, 40, 98, 41, 99 >>, << 45, 40, 120, 41 >>,
      << 92, 97 >> }

\* texts of one node, and of two nodes of one path or of two instances
Texts ==
    {<< >>} \cup Segments
    \cup {a \o << sep >> \o b : a \in Segments, b \in Segments, sep \in {Slash, Comma}}

\* the nodes of the chains written as text: file path nodes named
\* "a", "URI(x)", "Uri(x)" and "a()", and the node Uri(x)
TextNodes ==
    { FilePathNode(<< 97 >>), FilePathNode(<< 85, 82, 73, 40, 120, 41 >>),
      FilePathNode(<< 85, 114, 105, 40, 120, 41 >>), FilePathNode(<< 97, 40, 41 >>),
      UriNode(<< 120 >>) }

TextChains ==
    {EFIDP_END} \cup {a \o EFIDP_END : a \in TextNodes}
    \cup {a \o b \o EFIDP_END : a \in TextNodes, b \in TextNodes}
    \cup {a \o EFIDP_END_INSTANCE \o b \o EFIDP_END : a \in TextNodes, b \in TextNodes}

TextInputs ==
    {[kind |-> "text", bytes |-> t, display_only |-> FALSE,
      allow_shortcuts |-> FALSE] : t \in Texts}
    \cup {[kind |-> "chain", bytes |-> c, display_only |-> d,
           allow_shortcuts |-> a] : c \in TextChains, d \in BOOLEAN, a \in BOOLEAN}

InitText ==
    /\ env = [backend |-> "dummy", fault |-> "none", preset |-> "none"]
    /\ store = EmptyStore
    /\ entries = << >>
    /\ last = Result("init", TRUE, "", 0, 0, << >>)
    /\ crashed = FALSE
    /\ steps = 0
    /\ option = << >>
    /\ input \in TextInputs

\* the caller keeps the text efidp_to_text returned
Written(r) ==
    /\ option' = IF r.ok THEN r.text ELSE << >>
    /\ last' = Result("efidp_to_text", r.ok, r.errno, 0, 0, << >>)

\* efidp_to_text ( input.bytes, input.display_only, input.allow_shortcuts )
ToText ==
    /\ last.op = "init"
    /\ input.kind = "chain"
    /\ Written(efidp_to_text(input.bytes, input.display_only, input.allow_shortcuts))
    /\ steps' = steps + 1
    /\ UNCHANGED << store, env, entries, crashed, input >>

\* the caller keeps the path efidp_from_text returned; arg records
\* allow_implausible
Parsed(r, allow_implausible) ==
    /\ option' = IF r.ok THEN r.path ELSE << >>
    /\ last' = [Result("efidp_from_text", r.ok, r.errno, 0, 0, << >>)
                  EXCEPT !.arg = IF allow_implausible THEN 1 ELSE 0]

\* efidp_from_text ( text, allow_implausible ) of the text given, or of the
\* text efidp_to_text returned
FromText ==
    /\ \E allow_implausible \in BOOLEAN :
          \/ /\ last.op = "init"
             /\ input.kind = "text"
             /\ Parsed(efidp_from_text(input.bytes, allow_implausible),
                       allow_implausible)
          \/ /\ last.op = "efidp_to_text"
             /\ last.ok
             /\ Parsed(efidp_from_text(option, allow_implausible),
                       allow_implausible)
    /\ steps' = steps + 1
    /\ UNCHANGED << store, env, entries, crashed, input >>

NextText == ToText \/ FromText

SpecText == InitText /\ [][NextText]_vars

(***************************************************************************)
(* Properties of the codec (checked under SpecCodec)                       *)
(***************************************************************************)
RECURSIVE WellFormedChain(_)
\* c is one device-path chain: nodes of length >= 4 that fit, a file path
\* node ending in a NUL character, closed by an end-entire node of length 4
WellFormedChain(c) ==
    /\ Len(c) >= 4
    /\ IF c[1] = 127 /\ c[2] = 255
       THEN c[3] + 256 * c[4] = 4 /\ Len(c) = 4
       ELSE /\ c[3] + 256 * c[4] >= 4
            /\ c[3] + 256 * c[4] <= Len(c) - 4
            /\ (c[1] = 4 /\ c[2] = 4 =>
                   c[c[3] + 256 * c[4] - 1] = 0 /\ c[c[3] + 256 * c[4]] = 0)
            /\ WellFormedChain(SubSeq(c, c[3] + 256 * c[4] + 1, Len(c)))

RECURSIVE IsChains(_)
\* region is one or more chains, one after the other, and nothing else
IsChains(region) ==
    \E n \in 4..Len(region) :
        /\ WellFormedChain(SubSeq(region, 1, n))
        /\ (n = Len(region) \/ IsChains(SubSeq(region, n + 1, Len(region))))

\* the byte offsets behind the header at which a NUL character of the
\* description may end: the first NUL character lying wholly inside r
DescEnds(r) ==
    {e \in 8..Len(r) :
        /\ e % 2 = 0
        /\ r[e - 1] = 0 /\ r[e] = 0
        /\ \A f \in 8..(e - 1) : f % 2 = 0 => ~ (r[f - 1] = 0 /\ r[f] = 0)}

\* the record r is well formed in the sense of the specification
WellFormedOption(r) ==
    /\ Len(r) >= 6
    /\ \E e \in DescEnds(r) :
        /\ r[5] + 256 * r[6] <= Len(r) - e
        /\ IsChains(SubSeq(r, e + 1, e + r[5] + 256 * r[6]))

\* the number of bytes of optional data of a well-formed record
OptionalDataLen(r) ==
    Len(r) - (CHOOSE e \in DescEnds(r) : TRUE) - (r[5] + 256 * r[6])

\* C5: every record efiboot_from_option accepts comes back from
\* efiboot_to_option with the same length and the same bytes.
C5_RoundTrip ==
    (last.op = "to_option" /\ input # NoInput) =>
        last.ok /\ Len(option) = Len(input.bytes) /\ option = input.bytes

\* a record with two paths, a changed byte and optional data went round
C5_Witness ==
    /\ last.op = "to_option"
    /\ input.kind = "poke"
    /\ Len(entries[1].paths) = 2
    /\ option = input.bytes
    /\ option # input.base

\* C6: the FilePathListLength field efiboot_to_option writes equals the sum
\* of the lengths of the entry's device paths, also above 0xFFFF.
C6_FilePathListLength ==
    (last.op = "to_option" /\ last.ok) =>
        Mem16(option, 0, 4) = SumSeq([i \in 1..Len(entries[1].paths) |->
                                         Len(entries[1].paths[i].path)])

SameList(r) ==
    /\ r.ok
    /\ Len(r.entries) = Len(entries)
    /\ \A k \in 1..Len(entries) :
        /\ r.entries[k].index = entries[k].index
        /\ efiboot_to_option(r.entries[k]).option = efiboot_to_option(entries[k]).option

\* C1: after a successful efiboot_save_all, efiboot_load_all of the same
\* type returns a list of the same length with the same indices and the
\* same encoded bytes, entry by entry.
C1_SaveLoadRoundTrip ==
    (last.op = "save_all" /\ last.ok) =>
        SameList(efiboot_load_all(last.type, store, env, "nullname"))

\* C2: an entry whose index is not AUTO is named prefix + %04X of the index,
\* and an entry whose index is AUTO has no name.
C2_NameFollowsIndex ==
    \A k \in 1..Len(entries) :
        IF entries[k].index = EFIBOOT_INDEX_AUTO
        THEN efiboot_name(entries[k]) = NULL
        ELSE efiboot_name(entries[k]) =
                 efiboot_prefix(entries[k].type) \o Hex04X(entries[k].index)

\* C3: a successful efiboot_save leaves the entry with an index in
\* 0..0xFFFF, and after a successful efiboot_save_all every entry has one.
C3_SavedHasIndex ==
    /\ (last.op = "save" /\ last.ok) => entries[last.k].index \in 0..EFIBOOT_INDEX_MAX
    /\ (last.op = "save_all" /\ last.ok) =>
           \A k \in 1..Len(entries) : entries[k].index \in 0..EFIBOOT_INDEX_MAX

\* the k-th entry was modified with index AUTO and efiboot_save, on a
\* platform without faults, has returned having selected an index for it
Adopted(k) ==
    /\ last'.op = "save" /\ last'.k = k /\ ~ crashed'
    /\ env.fault = "none"
    /\ entries[k].modified /\ entries[k].index = EFIBOOT_INDEX_AUTO
    /\ entries'[k].index # EFIBOOT_INDEX_AUTO

\* C4: the index efiboot_save adopts for an AUTO entry is the smallest one
\* whose variable is not in the store at the time of the call.
C4_AdoptsSmallestFree ==
    [][\A k \in 1..Len(entries) : Adopted(k) =>
          /\ efiboot_prefix(entries[k].type) \o Hex04X(entries'[k].index)
                 \notin DOMAIN store
          /\ \A j \in 0..(entries'[k].index - 1) :
                 efiboot_prefix(entries[k].type) \o Hex04X(j) \in DOMAIN store]_vars

\* the order variable of the type just handled
LastOrder == efiboot_prefix(last.type) \o "Order"

\* C8: a successful efiboot_save_all has written the order variable, and it
\* holds the entries' indices, 16 bits little-endian each, in list order.
C8_OrderWritten ==
    (last.op = "save_all" /\ last.ok) =>
        /\ last.writes # << >> /\ last.writes[Len(last.writes)] = LastOrder
        /\ LastOrder \in DOMAIN store
        /\ Len(store[LastOrder]) = 2 * Len(entries)
        /\ \A k \in 1..Len(entries) :
               Mem16(store[LastOrder], 0, 2 * (k - 1)) = entries[k].index

\* the entry efiboot_load_all is to return for the index listed
ListedEntry(type, index) ==
    [efiboot_from_option(store[efiboot_prefix(type) \o Hex04X(index)],
                         Len(store[efiboot_prefix(type) \o Hex04X(index)]), 0).entry
        EXCEPT !.type = type, !.index = index,
               !.name = efiboot_prefix(type) \o Hex04X(index)]

\* C9: efiboot_load_all on an order variable listing n indices returns n
\* entries, the k-th read from the variable of the k-th index, with that
\* type, index and name and not modified.
C9_LoadAllEntries ==
    (last.op = "load_all" /\ last.ok /\ LastOrder \in DOMAIN store) =>
        /\ Len(entries) = Len(store[LastOrder]) \div 2
        /\ \A k \in 1..Len(entries) :
               /\ entries[k] = ListedEntry(last.type, Mem16(store[LastOrder], 0, 2 * (k - 1)))
               /\ ~ entries[k].modified

\* C10: efiboot_load_all returns the empty list when the order variable is
\* absent or empty, and fails when the variable is there but cannot be read.
C10_LoadAllReadFailure ==
    (last.op = "load_all" /\ last.type \in 1..EFIBOOT_TYPE_MAX) =>
        /\ (env.backend # "dummy" /\ env.fault = "none"
              /\ (LastOrder \notin DOMAIN store \/ store[LastOrder] = << >>))
           => (last.ok /\ entries = << >>)
        /\ (LastOrder \in DOMAIN store /\ store[LastOrder] # << >>
              /\ ~ efivars_read(store, env, LastOrder).ok)
           => ~ last.ok

\* the entry variable of some index listed in the order data cannot be loaded
SomeUnloadable(type, data) ==
    \E i \in 0..((Len(data) \div 2) - 1) :
        ~ efiboot_load(type, Mem16(data, 0, 2 * i), store, env, "nullname").ok

\* C11: when an index listed in the order variable names an entry variable
\* that is missing, cannot be read or is refused by efiboot_from_option,
\* efiboot_load_all fails instead of returning the other entries.
C11_LoadAllNeverSkips ==
    (/\ last.op = "load_all"
     /\ last.type \in 1..EFIBOOT_TYPE_MAX
     /\ LastOrder \in DOMAIN store
     /\ SomeUnloadable(last.type, store[LastOrder])) => ~ last.ok

\* C12: efiboot_save_all called with a list holding an entry of another type
\* than the one requested fails with EINVAL before anything is saved: no
\* variable is written, no index is assigned, the list is as it was.
C12_TypeCheckedFirst ==
    [][(/\ last'.op = "save_all"
        /\ last'.type \in 1..EFIBOOT_TYPE_MAX
        /\ \E k \in 1..Len(entries) : entries[k].type # last'.type)
       => (/\ ~ crashed'
           /\ ~ last'.ok /\ last'.errno = "EINVAL"
           /\ last'.writes = << >>
           /\ store' = store
           /\ entries' = entries)]_vars

(***************************************************************************)
(* Properties of saving to a full firmware (checked under SpecFull)        *)
(***************************************************************************)
\* every index of the type names a variable the firmware holds
AllInUse(type) ==
    \A index \in 0..EFIBOOT_INDEX_MAX :
        Present(store, env, efiboot_prefix(type) \o Hex04X(index))

\* C13: efiboot_save of a modified AUTO entry, when every index of its type
\* exists in the store, fails with ENOSPC and leaves the entry (index AUTO,
\* modified) and the store as they were.
C13_NoSpace ==
    [][\A k \in 1..Len(entries) :
          (/\ last'.op = "save" /\ last'.k = k
           /\ entries[k].modified /\ entries[k].index = EFIBOOT_INDEX_AUTO
           /\ entries[k].type \in 1..EFIBOOT_TYPE_MAX
           /\ AllInUse(entries[k].type))
          => (/\ ~ crashed'
              /\ ~ last'.ok /\ last'.errno = "ENOSPC"
              /\ entries'[k].index = EFIBOOT_INDEX_AUTO /\ entries'[k].modified
              /\ entries' = entries
              /\ store' = store)]_vars

(***************************************************************************)
(* Properties of the modified flag and the setters (checked under Spec)    *)
(***************************************************************************)
\* C14: efiboot_save of an entry that is not modified succeeds and leaves
\* the store and the entry as they were; a successful efiboot_save of a
\* modified entry writes its variable once and clears the flag; so a second
\* efiboot_save right after a successful one writes nothing.
C14_SaveOnlyModified ==
    [][\A k \in 1..Len(entries) :
          (last'.op = "save" /\ last'.k = k) =>
              /\ ~ entries[k].modified =>
                     (/\ last'.ok /\ ~ crashed'
                      /\ last'.writes = << >>
                      /\ store' = store
                      /\ entries' = entries)
              /\ (entries[k].modified /\ last'.ok) =>
                     (/\ ~ entries'[k].modified
                      /\ last'.writes = << efiboot_name(entries'[k]) >>)
              /\ (last.op = "save" /\ last.k = k /\ last.ok) =>
                     (last'.ok /\ last'.writes = << >> /\ store' = store)]_vars

\* an entry was loaded, given other optional data and saved, and a further
\* efiboot_save has returned without writing: its variable holds the new data
C14_Witness ==
    /\ last.op = "save" /\ last.ok /\ last.writes = << >>
    /\ steps = MaxSteps
    /\ ~ entries[last.k].modified
    /\ entries[last.k].data = << 7 >>
    /\ entries[last.k].name \in DOMAIN store
    /\ store[entries[last.k].name] = efiboot_to_option(entries[last.k]).option

\* the calls that change an entry
SetterOps ==
    {"set_type", "set_index", "set_attributes", "set_description", "set_paths",
     "set_path", "set_data", "clear_data"}

C16_AtLeastOnePath ==
    \A k \in 1..Len(entries) :
        /\ efiboot_path_count(entries[k]) >= 1
        /\ efiboot_path(entries[k], 0) # NULLBUF

\* efiboot_set_paths with count 0 was refused on an entry that a setter had
\* changed before, and the entry still has its two paths
C16_Witness ==
    /\ last.op = "set_paths" /\ ~ last.ok /\ last.arg = 0
    /\ entries[last.k].modified
    /\ efiboot_path_count(entries[last.k]) = 2
    /\ efiboot_path(entries[last.k], 0) = PathY

\* the call recorded in r passed a setter an argument it has to refuse
InvalidArgument(r, entry) ==
    \/ r.op = "set_type" /\ r.type \notin
           {EFIBOOT_TYPE_BOOT, EFIBOOT_TYPE_DRIVER, EFIBOOT_TYPE_SYSPREP}
    \/ r.op = "set_index" /\ UGreater(r.arg, EFIBOOT_INDEX_MAX)
           /\ r.arg # EFIBOOT_INDEX_AUTO
    \/ r.op = "set_paths" /\ r.arg = 0
    \/ r.op = "set_path" /\ r.arg >= efiboot_path_count(entry)

\* C17: a setter given an invalid argument (a type that is not Boot, Driver
\* or SysPrep; an index above 0xFFFF that is not AUTO; a path count of 0; a
\* path index not below the path count) fails with EINVAL and leaves every
\* field of the entry as it was.
C17_InvalidArgumentRefused ==
    [][\A k \in 1..Len(entries) :
          (last'.k = k /\ InvalidArgument(last', entries[k]))
          => (/\ ~ crashed'
              /\ ~ last'.ok /\ last'.errno = "EINVAL"
              /\ entries' = entries)]_vars

(***************************************************************************)
(* Properties of the device path check (checked under SpecPath)            *)
(***************************************************************************)
\* the bytes of the buffer that efidp_valid may take for the chain
Within(bytes, max_len) ==
    IF max_len = 0 \/ max_len > Len(bytes) THEN bytes ELSE SubSeq(bytes, 1, max_len)

\* C18: efidp_valid returns true only when a prefix of the buffer within
\* max_len is a well-formed chain of at least one node that is not an end
\* node, every node of Length >= 4 and none passing max_len, closed by an
\* end-entire node; an end node alone is refused.
C18_ValidOnlyWellFormed ==
    (last.op = "efidp_valid" /\ last.ok) =>
        \E n \in 4..Len(Within(input.bytes, input.max_len)) :
            /\ WellFormedChain(SubSeq(input.bytes, 1, n))
            /\ ~ (input.bytes[1] = END_DEVICE_PATH_TYPE
                  /\ input.bytes[2] = END_ENTIRE_DEVICE_PATH_SUBTYPE)

(***************************************************************************)
(* Properties of the text conversions (checked under SpecText)             *)
(***************************************************************************)
RECURSIVE NodesOf(_)
\* the nodes of a chain before its end-entire node, each with its bytes
\* after the header
NodesOf(c) ==
    IF c[1] = END_DEVICE_PATH_TYPE /\ c[2] = END_ENTIRE_DEVICE_PATH_SUBTYPE
    THEN << >>
    ELSE << [type |-> c[1], subtype |-> c[2],
             data |-> SubSeq(c, 5, c[3] + 256 * c[4])] >>
         \o NodesOf(SubSeq(c, c[3] + 256 * c[4] + 1, Len(c)))

IsFilePath(node) == node.type = MEDIA_DEVICE_PATH /\ node.subtype = MEDIA_FILEPATH_DP

RECURSIVE DropAlnum(_)
DropAlnum(name) ==
    IF name # << >> /\ isalnum(Head(name)) THEN DropAlnum(Tail(name)) ELSE name

\* the name of a file path node looks like a typed node: without one
\* trailing NUL and without its leading alphanumeric characters it is not
\* empty, begins with '(' and ends with ')'
ImplausibleName(node) ==
    LET units == Units16(node.data, 0, Len(node.data))
        Shape(rest) ==
            rest # << >> /\ rest[1] = LeftParenth /\ rest[Len(rest)] = RightParenth
    IN  Shape(DropAlnum(IF units # << >> /\ units[Len(units)] = 0
                        THEN SubSeq(units, 1, Len(units) - 1) ELSE units))

HasImplausible(c) ==
    \E i \in 1..Len(NodesOf(c)) :
        IsFilePath(NodesOf(c)[i]) /\ ImplausibleName(NodesOf(c)[i])

HasFilePath(c) == \E i \in 1..Len(NodesOf(c)) : IsFilePath(NodesOf(c)[i])

\* C19: efidp_from_text(text, false) rejects a text that parses exactly when
\* the parsed chain has a file path node whose name looks like a typed node;
\* with allow_implausible the parsed chain is returned; a chain without a file
\* path node, such as that of Uri(x), is never rejected.
C19_PlausibilityCheck ==
    (last.op = "efidp_from_text" /\ input.kind = "text") =>
        LET Checked(parsed) ==
                parsed # NULLBUF =>
                    /\ last.arg = 0 => (~ last.ok <=> HasImplausible(parsed))
                    /\ last.arg = 1 => (last.ok /\ option = parsed)
                    /\ ~ HasFilePath(parsed) => last.ok
        IN  Checked(ConvertTextToDevicePath(utf8_to_efi(input.bytes)))

\* C20: for every valid chain c, efidp_from_text of efidp_to_text(c, false,
\* false) succeeds and returns the bytes of c.
C20_TextRoundTrip ==
    ( /\ last.op = "efidp_from_text"
      /\ last.arg = 0
      /\ input.kind = "chain"
      /\ ~ input.display_only
      /\ ~ input.allow_shortcuts
      /\ efidp_valid(input.bytes, 0, 0, 0) ) =>
        (last.ok /\ option = input.bytes)

(***************************************************************************)
(* Properties of the Windows back-end (checked under Spec)                 *)
(***************************************************************************)
\* the name efiboot_load last asked for
LastName == efiboot_prefix(last.type) \o Hex04X(last.arg)

\* C21: on the Windows back-end efivars_read returns the entire value of an
\* existing variable whatever its length, so a variable that exists is never
\* reported as absent by efivars_read or efivars_exists.
C21_ReadsWholeValue ==
    ( /\ last.op = "load"
      /\ last.type \in 1..EFIBOOT_TYPE_MAX
      /\ last.arg \in 0..EFIBOOT_INDEX_MAX
      /\ env.backend = "windows" /\ env.fault = "none" ) =>
        ( (LastName \in DOMAIN store /\ store[LastName] # << >>) =>
            /\ efivars_read(store, env, LastName).ok
            /\ efivars_read(store, env, LastName).data = store[LastName]
            /\ efivars_exists(store, env, LastName) )

(***************************************************************************)
(* Properties of index assignment (checked under SpecAuto)                 *)
(***************************************************************************)
\* the call gave the k-th entry, which had none, an index
NewlyIndexed(k) ==
    /\ entries[k].index = EFIBOOT_INDEX_AUTO
    /\ entries'[k].index # EFIBOOT_INDEX_AUTO

\* the name of the variable of an entry of this type and index
NameOf(type, index) == efiboot_prefix(type) \o Hex04X(index)

\* C22: with Boot0000, Boot0001 and Boot0003 present, a new entry saved with
\* index AUTO is stored under Boot0002 and a second one adopts 4; new AUTO
\* entries saved one after another never adopt the index of each other nor
\* an index whose variable already existed, and each record is stored under
\* the name of the index adopted.
C22_AutoIndicesDistinct ==
    [][(last'.op \in {"save", "save_all"} /\ last'.ok /\ ~ crashed') =>
          \A k \in 1..Len(entries) :
              (NewlyIndexed(k) /\ entries[k].type \in 1..EFIBOOT_TYPE_MAX) =>
                  LET name == NameOf(entries'[k].type, entries'[k].index)
                  IN  /\ name \notin DOMAIN store
                      /\ name \in DOMAIN store'
                      /\ store'[name] = efiboot_to_option(entries'[k]).option
                      /\ \A j \in 1..Len(entries) \ {k} :
                            entries'[j].type = entries'[k].type
                                => entries'[j].index # entries'[k].index
                      /\ (DOMAIN store = DOMAIN StoreThree)
                            => entries'[k].index = 2
                      /\ (DOMAIN store = DOMAIN StoreThree \cup {"Boot0002"})
                            => entries'[k].index = 4]_vars

(***************************************************************************)
(* Properties of saving a list (checked under Spec)                        *)
(***************************************************************************)
\* the name efivars_write makes of the name of an entry
WrittenName(entry) ==
    IF efiboot_name(entry) = NULL THEN "(null)" ELSE efiboot_name(entry)

\* the position at which efiboot_save_all(type, ...) stopped, 0 if at none:
\* the entries before it are saved and of the type
FailedAt(type, new) ==
    LET Stops(i) == new[i].modified \/ new[i].type # type
    IN  IF \A i \in 1..Len(new) : ~ Stops(i) THEN 0
        ELSE CHOOSE i \in 1..Len(new) : Stops(i) /\ \A j \in 1..(i - 1) : ~ Stops(j)

\* the store st after the variables of the modified entries of old from
\* position i to before position k are written one after another
RECURSIVE StoreAfter(_, _, _, _, _)
StoreAfter(st, old, new, i, k) ==
    IF i >= k THEN st
    ELSE StoreAfter(IF old[i].modified
                    THEN StoreSet(st, WrittenName(new[i]),
                                  efiboot_to_option(new[i]).option)
                    ELSE st,
                    old, new, i + 1, k)

\* C23: when efiboot_save_all fails while saving the k-th entry, the
\* variables written for the entries before k stay written, no entry after
\* k is written or changed, and the order variable is not written and keeps
\* its value.
C23_NoRollback ==
    [][( /\ last'.op = "save_all" /\ ~ last'.ok /\ ~ crashed'
         /\ last'.type \in 1..EFIBOOT_TYPE_MAX
         /\ FailedAt(last'.type, entries') > 0 ) =>
          LET k == FailedAt(last'.type, entries')
              order == efiboot_prefix(last'.type) \o "Order"
          IN  /\ store' = StoreAfter(store, entries, entries', 1, k)
              /\ \A n \in DOMAIN store : n \in DOMAIN store'
              /\ \A j \in (k + 1)..Len(entries) : entries'[j] = entries[j]
              /\ \A i \in 1..Len(last'.writes) : last'.writes[i] # order
              /\ order \in DOMAIN store' <=> order \in DOMAIN store
              /\ order \in DOMAIN store => store'[order] = store[order]]_vars

\* a list whose first entry was written and whose second entry failed
C23_Witness ==
    /\ last.op = "save_all" /\ ~ last.ok /\ ~ crashed
    /\ last.type \in 1..EFIBOOT_TYPE_MAX
    /\ FailedAt(last.type, entries) = 2
    /\ Len(last.writes) >= 1
    /\ last.writes[1] # NULL
    /\ last.writes[1] \in DOMAIN store
    /\ store[last.writes[1]] = efiboot_to_option(entries[1]).option

(***************************************************************************)
(* Properties of the delete command (checked under SpecDel)                *)
(***************************************************************************)
\* the indices an order variable lists
ListedIndices(data) == {Mem16(data, 0, 2 * i) : i \in 0..(Len(data) \div 2 - 1)}

\* the order variable lists the index of the entry taken out of the list
ListsRemoved(st) ==
    /\ "BootOrder" \in DOMAIN st
    /\ input.entry.index \in ListedIndices(st["BootOrder"])

\* C24: in the delete flow the order variable is rewritten without the
\* index of the removed entry before the variable of that entry is deleted,
\* and when the rewrite fails the variable is not deleted: the order variable
\* never lists an index whose variable the flow has deleted.
C24_OrderBeforeDelete ==
    [][ /\ (last'.op = "save_all" /\ ~ last'.ok) =>
               (DOMAIN store' = DOMAIN store /\ ~ ENABLED DeleteDel)
        /\ (last'.op = "save_all" /\ last'.ok) =>
               ~ (input'.entry.index \in ListedIndices(store'["BootOrder"]))
        /\ (last'.op = "del" /\ last'.ok) =>
               (last.op = "save_all" /\ last.ok /\ ~ ListsRemoved(store'))]_vars

(***************************************************************************)
(* Properties of the path texts (checked under SpecPaths)                  *)
(***************************************************************************)
\* the text of a path as efiboot_path_text asks for it
TextOf(path) == efidp_to_text(path, FALSE, TRUE).text

\* C25: for every path index below the path count efiboot_path_text returns
\* the text of the entry's current path of that index (display_only false,
\* allow_shortcuts true) and keeps it for the next request; a text kept
\* from before efiboot_set_paths or efiboot_set_path replaced the paths is
\* never returned.
C25_PathTextCurrent ==
    [][last'.op = "path_text" =>
          LET k == last'.k
              index == last'.arg
          IN  IF index < efiboot_path_count(entries[k])
              THEN /\ last'.ok
                   /\ option' = TextOf(efiboot_path(entries[k], index))
                   /\ entries'[k].paths[index + 1].text = option'
                   /\ \A i \in 1..Len(entries'[k].paths) :
                         entries'[k].paths[i].text # NULLBUF =>
                             entries'[k].paths[i].text = TextOf(entries'[k].paths[i].path)
                   /\ efiboot_path_count(entries'[k]) = efiboot_path_count(entries[k])
                   /\ \A i \in 0..(efiboot_path_count(entries[k]) - 1) :
                         efiboot_path(entries'[k], i) = efiboot_path(entries[k], i)
              ELSE ~ last'.ok /\ entries' = entries]_vars

\* the text of a path that efiboot_set_path put in place of another
C25_Witness ==
    /\ last.op = "path_text" /\ last.ok /\ last.arg = 0
    /\ steps >= 3
    /\ entries[1].modified
    /\ efiboot_path(entries[1], 0) = PathY
    /\ option = TextOf(PathY)
    /\ option = << 80, 99, 105, 40, 48, 120, 54, 44, 48, 120, 53, 41 >>

(***************************************************************************)
(* Properties of the store without another party (checked under SpecQuiet) *)
(***************************************************************************)
\* the variable of the k-th entry holds the entry as it is
InStore(k) ==
    LET name == NameOf(entries[k].type, entries[k].index)
    IN  /\ name \in DOMAIN store
        /\ store[name] = efiboot_to_option(entries[k]).option

\* C26: without external mutation, whenever an entry is not modified and
\* its index is not AUTO, the store holds under prefix(type)+%04X(index)
\* exactly efiboot_to_option(entry); so after efiboot_load, efiboot_load_all
\* and every successful efiboot_save and efiboot_save_all.
C26_UnmodifiedIsStored ==
    ~ crashed =>
        \A k \in 1..Len(entries) :
            ( /\ ~ entries[k].modified
              /\ entries[k].index # EFIBOOT_INDEX_AUTO
              /\ entries[k].type \in 1..EFIBOOT_TYPE_MAX ) => InStore(k)

\* every index the order variable of the type lists names a variable
Sound(type, st) ==
    LET order == efiboot_prefix(type) \o "Order"
    IN  order \in DOMAIN st =>
            \A index \in ListedIndices(st[order]) : NameOf(type, index) \in DOMAIN st

\* C27: when every index listed in the order variable names an existing
\* entry variable before efiboot_save_all, the same is true of the store
\* the call leaves behind, whether it succeeds or fails part-way.
C27_OrderNamesVariables ==
    [][ \A type \in 1..EFIBOOT_TYPE_MAX :
            (last'.op = "save_all" /\ last'.type = type /\ ~ crashed'
                /\ Sound(type, store)) => Sound(type, store') ]_vars

\* the names of the variables in which two stores differ
Differing(st, new) ==
    {n \in DOMAIN st \cup DOMAIN new :
        \/ n \notin DOMAIN st
        \/ n \notin DOMAIN new
        \/ (n \in DOMAIN st /\ n \in DOMAIN new /\ st[n] # new[n])}

\* C28: efiboot_save writes at most one variable, the one named
\* prefix(type)+%04X(index) for the index the entry has after the call;
\* neither the order variable nor a variable of another name changes.
C28_SaveWritesOwnVariable ==
    [][ (last'.op = "save" /\ ~ crashed'
            /\ entries'[last'.k].type \in 1..EFIBOOT_TYPE_MAX) =>
        Differing(store, store') \subseteq
            {NameOf(entries'[last'.k].type, entries'[last'.k].index)} ]_vars

\* the indices the order variable of the type lists, in order
IndicesOf(type, st) ==
    LET order == efiboot_prefix(type) \o "Order"
    IN  IF order \in DOMAIN st
        THEN [i \in 1..(Len(st[order]) \div 2) |-> Mem16(st[order], 0, 2 * (i - 1))]
        ELSE << >>

\* C29: efiboot_save_all of the list efiboot_load_all has just returned,
\* for the same type and with no setter in between, writes no entry
\* variable and leaves the order variable listing the same indices.
C29_LoadSaveAllIdle ==
    [][ \A type \in 1..EFIBOOT_TYPE_MAX :
            ( /\ last.op = "load_all" /\ last.ok /\ last.type = type
              /\ last'.op = "save_all" /\ last'.type = type
              /\ ~ crashed' ) =>
            ( /\ Differing(store, store') \subseteq {efiboot_prefix(type) \o "Order"}
              /\ IndicesOf(type, store') = IndicesOf(type, store) ) ]_vars

(***************************************************************************)
(* Properties of the reads of efiboot_from_option (checked under SpecCodec)*)
(***************************************************************************)
\* the offset one past the last byte StrnLenS examines: the units up to and
\* including the first NUL unit, or all MaxSize units when there is none
StrnLenSReach(buf, junk, off, MaxSize) ==
    LET Reach(n) == off + 2 * ((IF n < MaxSize THEN n ELSE MaxSize - 1) + 1)
    IN  IF MaxSize = 0 THEN off
        ELSE Reach(StrnLenS(buf, junk, off, MaxSize, 0))

\* C30: efiboot_from_option(record, len) examines no byte at offset len or
\* beyond; the search for the NUL of the description stays within the
\* first len bytes, also for a record without a NUL.
C30_ReadsWithinLen ==
    (last.op = "from_option" /\ Len(input.bytes) >= SIZEOF_EFI_LOAD_OPTION) =>
        StrnLenSReach(input.bytes, input.junk, SIZEOF_EFI_LOAD_OPTION,
                      Len(input.bytes) - SIZEOF_EFI_LOAD_OPTION) <= Len(input.bytes)
====
